---- MODULE Spec2Model ----
(***************************************************************************)
(* A model of the xmlparser pull tokenizer (src/src/lib.rs) over its byte  *)
(* stream (src/src/bytestream.rs, src/src/stream.rs) and the character     *)
(* classes of src/src/xmlchar.rs.                                          *)
(*                                                                         *)
(* The input text is a sequence of bytes (valid UTF-8).  A stream value is *)
(* a record [pos, bad]: pos is Stream.pos, and bad records that a          *)
(* debug_assert!, an index or a slice of the code would have panicked.     *)
(* Every parser is an operator from a stream value to a result record      *)
(* [ok, s, cause, ...]: ok = FALSE is the Err(..) of the code.             *)
(***************************************************************************)
EXTENDS Integers, Sequences, FiniteSets, TLC

VARIABLES
    text,              \* StrSpan.text: the whole underlying string, as bytes
    spanStart,         \* StrSpan.start of the span the stream was built over
    pos,               \* Stream.pos (relative to spanStart)
    state,             \* Tokenizer.state
    depth,             \* Tokenizer.depth
    fragment_parsing,  \* Tokenizer.fragment_parsing
    last,              \* what the latest call of next() returned
    prev,              \* the latest Ok(token) returned before `last`
    hist               \* counters and flags over the calls of next() so far

vars == <<text, spanStart, pos, state, depth, fragment_parsing, last, prev, hist>>

(***************************************************************************)
(* Bytes by name.                                                          *)
(***************************************************************************)
A == [ tab |-> 9, lf |-> 10, cr |-> 13, sp |-> 32, bang |-> 33, dq |-> 34,
       hash |-> 35, pct |-> 37, amp |-> 38, sq |-> 39, minus |-> 45,
       dot |-> 46, slash |-> 47, zero |-> 48, nine |-> 57, colon |-> 58,
       semi |-> 59, lt |-> 60, eq |-> 61, gt |-> 62, qm |-> 63,
       upA |-> 65, upF |-> 70, upP |-> 80, upS |-> 83, upZ |-> 90,
       lbr |-> 91, rbr |-> 93, us |-> 95, loA |-> 97, loF |-> 102,
       loX |-> 120, loZ |-> 122 ]

S_BOM      == <<239, 187, 191>>
S_qxml     == <<63, 120, 109, 108, 32>>                 \* ?xml_
S_mm       == <<45, 45>>                                \* --
S_DOCTYPE  == <<68, 79, 67, 84, 89, 80, 69>>
S_ELEMENT  == <<69, 76, 69, 77, 69, 78, 84>>
S_ATTLIST  == <<65, 84, 84, 76, 73, 83, 84>>
S_ENTITY   == <<69, 78, 84, 73, 84, 89>>
S_NOTATION == <<78, 79, 84, 65, 84, 73, 79, 78>>
S_CDATA    == <<91, 67, 68, 65, 84, 65, 91>>            \* [CDATA[
S_dtdend   == <<93, 62>>                                \* ]>
S_version  == <<118, 101, 114, 115, 105, 111, 110>>
S_encoding == <<101, 110, 99, 111, 100, 105, 110, 103>>
S_standalone == <<115, 116, 97, 110, 100, 97, 108, 111, 110, 101>>
S_onedot   == <<49, 46>>                                \* 1.
S_pi_end   == <<63, 62>>                                \* ?>
S_cmt_end  == <<45, 45, 62>>                            \* -->
S_cd_end   == <<93, 93, 62>>                            \* ]]>
S_SYSTEM   == <<83, 89, 83, 84, 69, 77>>
S_PUBLIC   == <<80, 85, 66, 76, 73, 67>>
S_NDATA    == <<78, 68, 65, 84, 65>>
S_yes      == <<121, 101, 115>>
S_no       == <<110, 111>>
S_quot     == <<113, 117, 111, 116>>
S_amp      == <<97, 109, 112>>
S_apos     == <<97, 112, 111, 115>>
S_lt       == <<108, 116>>
S_gt       == <<103, 116>>

(***************************************************************************)
(* src/src/xmlchar.rs                                                      *)
(***************************************************************************)
is_xml_digit(c) == c >= A.zero /\ c <= A.nine

is_xml_hex_digit(c) ==
    \/ (c >= A.zero /\ c <= A.nine)
    \/ (c >= A.upA /\ c <= A.upF)
    \/ (c >= A.loA /\ c <= A.loF)

is_xml_space(c) == c \in {A.sp, A.tab, A.lf, A.cr}

is_xml_letter(c) == (c >= A.upA /\ c <= A.upZ) \/ (c >= A.loA /\ c <= A.loZ)

byte_is_xml_name(c) ==
    \/ is_xml_letter(c)
    \/ is_xml_digit(c)
    \/ c \in {A.colon, A.us, A.minus, A.dot}

InRange(c, lo, hi) == c >= lo /\ c <= hi

NameStartRanges(c) ==
    \/ InRange(c, 192, 214)       \/ InRange(c, 216, 246)
    \/ InRange(c, 248, 767)       \/ InRange(c, 880, 893)
    \/ InRange(c, 895, 8191)      \/ InRange(c, 8204, 8205)
    \/ InRange(c, 8304, 8591)     \/ InRange(c, 11264, 12271)
    \/ InRange(c, 12289, 55295)   \/ InRange(c, 63744, 64975)
    \/ InRange(c, 65008, 65533)   \/ InRange(c, 65536, 983039)

is_xml_name_start(c) ==
    IF c <= 128
    THEN is_xml_letter(c) \/ c = A.colon \/ c = A.us
    ELSE NameStartRanges(c)

is_xml_name(c) ==
    IF c <= 128
    THEN byte_is_xml_name(c)
    ELSE \/ c = 183
         \/ InRange(c, 768, 879)
         \/ InRange(c, 8255, 8256)
         \/ NameStartRanges(c)

is_xml_char(c) ==
    IF c < 32 THEN is_xml_space(c)
    ELSE c \notin {65535, 65534}

(***************************************************************************)
(* The span the stream reads, and UTF-8 decoding of the str it borrows.    *)
(***************************************************************************)
End == Len(text) - spanStart             \* Stream.end = span.len()

Byte(i) == text[spanStart + i + 1]       \* span.as_bytes()[i]

IsCont(b) == b >= 128 /\ b <= 191

\* str::is_char_boundary, on an offset into the whole text
is_char_boundary(i) ==
    \/ i = 0
    \/ i = Len(text)
    \/ (i > 0 /\ i < Len(text) /\ ~IsCont(text[i + 1]))

\* char::len_utf8 of the char whose first byte is b
len_utf8(b) ==
    IF b < 128 THEN 1 ELSE IF b < 224 THEN 2 ELSE IF b < 240 THEN 3 ELSE 4

\* the char str::chars() yields at offset i of the span (i is a boundary)
CharAt(i) ==
    LET b == Byte(i) IN
    IF b < 128 THEN b
    ELSE IF b < 224 THEN (b - 192) * 64 + (Byte(i + 1) - 128)
    ELSE IF b < 240 THEN
        (b - 224) * 4096 + (Byte(i + 1) - 128) * 64 + (Byte(i + 2) - 128)
    ELSE (b - 240) * 262144 + (Byte(i + 1) - 128) * 4096
         + (Byte(i + 2) - 128) * 64 + (Byte(i + 3) - 128)

(***************************************************************************)
(* StrSpan (src/src/strspan.rs).  own = FALSE is a span of another string, *)
(* as made by "".into().                                                   *)
(***************************************************************************)
from_substr_ok(start, end) ==
    /\ start <= end
    /\ end <= Len(text)
    /\ is_char_boundary(start)
    /\ is_char_boundary(end)

\* a faulty slice_region whose end is one byte too far
slice_region_long(start, end) ==
    [start |-> spanStart + start, end |-> spanStart + end + 1, own |-> TRUE]

\* StrSpan::slice_region
slice_region(start, end) ==
    [start |-> spanStart + start, end |-> spanStart + end, own |-> TRUE]

EmptyStr == [start |-> 0, end |-> 0, own |-> FALSE]

SpanLen(sp) == sp.end - sp.start

\* the bytes of a span of the text
SpanBytes(sp) ==
    IF sp.own /\ sp.start >= 0 /\ sp.end <= Len(text)
    THEN SubSeq(text, sp.start + 1, sp.end) ELSE <<>>

(***************************************************************************)
(* Stream values and results.                                              *)
(***************************************************************************)
Stream(p, b) == [pos |-> p, bad |-> b]

Ok(s) == [ok |-> TRUE, s |-> s, cause |-> "none"]

Err(s, cause) == [ok |-> FALSE, s |-> s, cause |-> cause]

Flag(s, b) == [pos |-> s.pos, bad |-> s.bad \/ b]

\* Let(v, K) is K(v): `let x = v;` followed by the code K that uses x
Let(v, K(_)) == K(v)

\* a faulty at_end that holds one byte before the end
at_end_one_early(s) == s.pos + 1 >= End

\* ByteStream::at_end
at_end(s) == s.pos >= End

\* ByteStream::advance: debug_assert!(self.pos + n <= self.end)
advance(s, n) == [pos |-> s.pos + n, bad |-> s.bad \/ (s.pos + n > End)]

\* a faulty jump_to_end that leaves the cursor where the error was found
jump_to_end_stays(s) == s

\* ByteStream::jump_to_end
jump_to_end(s) == [pos |-> End, bad |-> s.bad]

\* ByteStream::starts_with
starts_with(s, t) ==
    /\ s.pos + Len(t) <= End
    /\ \A i \in 1..Len(t) : Byte(s.pos + i - 1) = t[i]

\* a faulty slice_back that slices from the head of the span
slice_back_from_head(s, start) == slice_region(0, s.pos)

\* ByteStream::slice_back: span.slice_region(pos, self.pos)
slice_back(s, start) == slice_region(start, s.pos)

\* a slice panics: its start underflowed (pos - k on usize), the
\* debug_assert!s of StrSpan::from_substr fail, or the str slice panics
slice_panics(s, start) ==
    \/ start < 0
    \/ ~from_substr_ok(spanStart + start, spanStart + s.pos)

\* ByteStream::gen_text_pos indexes text[..end] with end = pos + span.start:
\* it panics past the end of the text or inside a code point
gen_text_pos_panics(p) ==
    \/ p + spanStart > Len(text)
    \/ ~is_char_boundary(p + spanStart)

\* the clamp of ByteStream::gen_text_pos_from
ClampPos(p) == IF p < Len(text) THEN p ELSE Len(text)

gen_text_pos_from_panics(p) == gen_text_pos_panics(ClampPos(p))

\* TextPos::new
TextPos(row, col) == [row |-> row, col |-> col]

\* no TextPos: the call that would compute it panicked, or there is no error
NoPos == TextPos(0, 0)

\* ByteStream::calc_curr_row over text.as_bytes()[..end]
RECURSIVE calc_curr_row(_)
calc_curr_row(end) ==
    IF end = 0 THEN 1
    ELSE calc_curr_row(end - 1) + (IF text[end] = A.lf THEN 1 ELSE 0)

\* ByteStream::calc_curr_col over text[..end].chars().rev(): one step back
\* per code point, up to a `\n`
RECURSIVE calc_curr_col(_)
calc_curr_col(end) ==
    IF end = 0 THEN 1
    ELSE LET j == CHOOSE j \in 0..(end - 1) :
                      /\ is_char_boundary(j)
                      /\ \A k \in (j + 1)..(end - 1) : ~is_char_boundary(k)
         IN IF text[j + 1] = A.lf THEN 1 ELSE calc_curr_col(j) + 1

\* a faulty gen_text_pos whose column counts bytes
gen_text_pos_byte_col(p) ==
    IF gen_text_pos_panics(p) THEN NoPos
    ELSE Let(p + spanStart, LAMBDA end :
         TextPos(calc_curr_row(end),
                 1 + Cardinality({i \in 1..end :
                                      \A k \in i..end : text[k] # A.lf})))

\* ByteStream::gen_text_pos
gen_text_pos(p) ==
    IF gen_text_pos_panics(p) THEN NoPos
    ELSE Let(p + spanStart, LAMBDA end :
         TextPos(calc_curr_row(end), calc_curr_col(end)))

\* ByteStream::gen_text_pos_from
gen_text_pos_from(p) == gen_text_pos(ClampPos(p))

\* an Err(..) whose payload is self.gen_text_pos()
ErrAt(s, cause) == Err(Flag(s, gen_text_pos_panics(s.pos)), cause)

\* ByteStream::consume_byte
consume_byte(s, c) ==
    IF at_end(s) THEN Err(s, "UnexpectedEndOfStream")
    ELSE IF Byte(s.pos) # c THEN ErrAt(s, "InvalidChar")
    ELSE Ok(advance(s, 1))

\* ByteStream::try_consume_byte
try_consume_byte(s, c) ==
    IF ~at_end(s) /\ Byte(s.pos) = c
    THEN [hit |-> TRUE, s |-> advance(s, 1)]
    ELSE [hit |-> FALSE, s |-> s]

\* ByteStream::skip_string; the error path slices span.as_str()[self.pos..]
skip_string(s, t) ==
    IF ~starts_with(s, t)
    THEN Err(Flag(s, gen_text_pos_panics(s.pos)), "InvalidString")
    ELSE Ok(advance(s, Len(t)))

\* ByteStream::skip_bytes: while !at_end && f(self, byte) { advance(1) };
\* the closure f is given as the set of the bytes it holds for
skip_bytes(s, keep) ==
    LET f[i \in 0..End] ==
            IF i >= End THEN i
            ELSE IF Byte(i) \in keep THEN f[i + 1] ELSE i
    IN Stream(f[s.pos], s.bad)

\* the closures lib.rs passes to consume_chars, as data: |s, c| !(c is one
\* of `chars` && s.starts_with(str)); xml_only adds c.is_xml_char()
CharPred(chars, str) == [chars |-> chars, str |-> str, xml_only |-> FALSE]

\* a closure of consume_chars applied to the stream at i and the char c
CallPred(f, i, c) ==
    /\ f.xml_only => is_xml_char(c)
    /\ ~(c \in f.chars /\ starts_with(Stream(i, FALSE), f.str))

\* ByteStream::skip_chars: for c in self.chars() { if f(self, c) {
\* advance(c.len_utf8()) } else { break } }
skip_chars(s, f) ==
    LET g[i \in 0..End] ==
            IF i >= End THEN Stream(i, s.bad)
            ELSE LET c == CharAt(i)
                     n == len_utf8(Byte(i))
                 IN IF ~CallPred(f, i, c) THEN Stream(i, s.bad)
                    ELSE IF i + n > End THEN Stream(i + n, TRUE)
                    ELSE g[i + n]
    IN g[s.pos]

\* Stream::consume_chars as lib.rs calls it, returning a Result: it skips
\* chars while f holds and fails with NonXmlChar at the first char that is
\* not an XML char
consume_chars(s, f) ==
    Let(skip_chars(s, [f EXCEPT !.xml_only = TRUE]), LAMBDA s1 :
    IF ~at_end(s1) /\ ~is_xml_char(CharAt(s1.pos))
    THEN ErrAt(s1, "NonXmlChar")
    ELSE Ok(s1))

\* the bytes 0..255 a byte closure holds for
AllBytes == 0..255

\* Stream::skip_ascii_spaces
skip_ascii_spaces(s) == skip_bytes(s, {c \in AllBytes : is_xml_space(c)})

(***************************************************************************)
(* Names (src/src/stream.rs).                                              *)
(***************************************************************************)
\* Stream::skip_name
skip_name(s) ==
    IF at_end(s) THEN Ok(s)
    ELSE IF ~is_xml_name_start(CharAt(s.pos)) THEN Err(s, "InvalidName")
    ELSE LET f[i \in 0..End] ==
                 IF i >= End THEN i
                 ELSE IF is_xml_name(CharAt(i))
                      THEN f[i + len_utf8(Byte(i))] ELSE i
         IN Ok(Stream(f[s.pos + len_utf8(Byte(s.pos))], s.bad))

\* Stream::consume_name
consume_name(s) ==
    Let(skip_name(s), LAMBDA r :
    IF ~r.ok THEN [ok |-> FALSE, s |-> r.s, cause |-> r.cause, span |-> EmptyStr]
    ELSE Let(Flag(r.s, slice_panics(r.s, s.pos)), LAMBDA s1 :
         Let(slice_back(r.s, s.pos), LAMBDA name :
         IF SpanLen(name) = 0
         THEN [ok |-> FALSE, s |-> s1, cause |-> "InvalidName", span |-> name]
         ELSE [ok |-> TRUE, s |-> s1, cause |-> "none", span |-> name])))

\* the loop of Stream::consume_qname: the end of the name and the offset of
\* the last `:` seen (-1 when there is none)
QNameScan(p) ==
    LET f[i \in 0..End] ==
            IF i >= End THEN [pos |-> i, splitter |-> -1]
            ELSE LET c == CharAt(i) IN
                 IF c = A.colon
                 THEN LET r == f[i + 1] IN
                      [pos |-> r.pos,
                       splitter |-> IF r.splitter >= 0 THEN r.splitter ELSE i]
                 ELSE IF is_xml_name(c) THEN f[i + len_utf8(Byte(i))]
                 ELSE [pos |-> i, splitter |-> -1]
    IN f[p]

\* Stream::consume_qname
consume_qname(s) ==
    Let(QNameScan(s.pos), LAMBDA q :
    Let(Stream(q.pos, s.bad), LAMBDA s1 :
    Let(IF q.splitter >= 0 THEN slice_back(s1, q.splitter + 1)
        ELSE slice_back(s1, s.pos), LAMBDA local :
    Let(IF q.splitter >= 0 THEN slice_region(s.pos, q.splitter)
        ELSE EmptyStr, LAMBDA prefix :
    Let(IF q.splitter >= 0
        THEN \/ slice_panics(s1, q.splitter + 1)
             \/ slice_panics(Stream(q.splitter, FALSE), s.pos)
        ELSE slice_panics(s1, s.pos), LAMBDA panics :
    Let(Flag(s1, panics), LAMBDA s2 :
    IF SpanLen(local) = 0
    THEN [ok |-> FALSE, s |-> s2, cause |-> "InvalidName",
          prefix |-> prefix, local |-> local]
    ELSE [ok |-> TRUE, s |-> s2, cause |-> "none",
          prefix |-> prefix, local |-> local]))))))

\* Stream::consume_eq
consume_eq(s) ==
    Let(consume_byte(skip_ascii_spaces(s), A.eq), LAMBDA r :
    IF ~r.ok THEN r ELSE Ok(skip_ascii_spaces(r.s)))

\* a faulty consume_quote that reports `'` whichever quote it consumed
consume_quote_single(s) ==
    IF at_end(s)
    THEN [ok |-> FALSE, s |-> s, cause |-> "UnexpectedEndOfStream", quote |-> 0]
    ELSE IF Byte(s.pos) = A.sq \/ Byte(s.pos) = A.dq
    THEN [ok |-> TRUE, s |-> advance(s, 1), cause |-> "none", quote |-> A.sq]
    ELSE [ok |-> FALSE, s |-> Flag(s, gen_text_pos_panics(s.pos)),
          cause |-> "InvalidQuote", quote |-> 0]

\* Stream::consume_quote
consume_quote(s) ==
    IF at_end(s)
    THEN [ok |-> FALSE, s |-> s, cause |-> "UnexpectedEndOfStream", quote |-> 0]
    ELSE IF Byte(s.pos) = A.sq \/ Byte(s.pos) = A.dq
    THEN [ok |-> TRUE, s |-> advance(s, 1), cause |-> "none",
          quote |-> Byte(s.pos)]
    ELSE [ok |-> FALSE, s |-> Flag(s, gen_text_pos_panics(s.pos)),
          cause |-> "InvalidQuote", quote |-> 0]

(***************************************************************************)
(* References and whitespace (src/src/stream.rs).                          *)
(***************************************************************************)
\* the digit value of an ASCII (hex) digit
DigitValue(c) ==
    IF c >= A.zero /\ c <= A.nine THEN c - A.zero
    ELSE IF c >= A.upA /\ c <= A.upF THEN c - A.upA + 10
    ELSE c - A.loA + 10

\* u32::from_str_radix on the bytes [from, to) of the span.  The value is
\* kept as hi * 65536 + lo, so that a number that does not fit in 32 bits is
\* told apart (ovf) without leaving the integers of the checker.
from_str_radix(from, to, radix) ==
    LET f[i \in from..to] ==
            IF i = from THEN [hi |-> 0, lo |-> 0, ovf |-> FALSE]
            ELSE LET v  == f[i - 1]
                     l  == v.lo * radix + DigitValue(Byte(i - 1))
                     h  == v.hi * radix + (l \div 65536)
                 IN IF v.ovf \/ h > 65535
                    THEN [hi |-> 0, lo |-> 0, ovf |-> TRUE]
                    ELSE [hi |-> h, lo |-> l % 65536, ovf |-> FALSE]
    IN IF from >= to THEN [ok |-> FALSE, hi |-> 0, lo |-> 0]
       ELSE [ok |-> ~f[to].ovf, hi |-> f[to].hi, lo |-> f[to].lo]

\* a faulty conversion that takes a surrogate code point for a char
char_from_u32_surrogates(n) ==
    IF n.hi > 16 THEN 65533 ELSE n.hi * 65536 + n.lo

\* char::from_u32(n).unwrap_or('\u{FFFD}')
char_from_u32(n) ==
    IF n.hi > 16 THEN 65533
    ELSE IF n.hi * 65536 + n.lo >= 55296 /\ n.hi * 65536 + n.lo <= 57343
    THEN 65533
    ELSE n.hi * 65536 + n.lo

NoRef == [type |-> "none", ch |-> 0, name |-> EmptyStr]

RefErr(s) == [ok |-> FALSE, s |-> s, cause |-> "InvalidReference", ref |-> NoRef]

\* the name of a predefined entity, as the char it stands for; 0 otherwise
Predefined(name) ==
    IF name = S_quot THEN A.dq
    ELSE IF name = S_amp THEN A.amp
    ELSE IF name = S_apos THEN A.sq
    ELSE IF name = S_lt THEN A.lt
    ELSE IF name = S_gt THEN A.gt
    ELSE 0

\* Stream::consume_reference (with _consume_reference)
consume_reference(s) ==
    IF at_end(s) \/ Byte(s.pos) # A.amp THEN RefErr(s)
    ELSE Let(advance(s, 1), LAMBDA s1 :
    IF at_end(s1) THEN RefErr(s1)
    ELSE IF Byte(s1.pos) = A.hash
    THEN Let(advance(s1, 1), LAMBDA s2 :
         IF at_end(s2) THEN RefErr(s2)
         ELSE
         Let(Byte(s2.pos) = A.loX, LAMBDA hex :
         Let(IF hex THEN advance(s2, 1) ELSE s2, LAMBDA s3 :
         Let(IF hex THEN skip_bytes(s3, {c \in AllBytes : is_xml_hex_digit(c)})
             ELSE skip_bytes(s3, {c \in AllBytes : is_xml_digit(c)}), LAMBDA s4 :
         Let(Flag(s4, slice_panics(s4, s3.pos)), LAMBDA s5 :
         Let(from_str_radix(s3.pos, s4.pos, IF hex THEN 16 ELSE 10), LAMBDA n :
         IF ~n.ok THEN RefErr(s5)
         ELSE Let(char_from_u32(n), LAMBDA c :
              IF ~is_xml_char(c) THEN RefErr(s5)
              ELSE Let(consume_byte(s5, A.semi), LAMBDA e :
                   IF ~e.ok THEN RefErr(e.s)
                   ELSE [ok |-> TRUE, s |-> e.s, cause |-> "none",
                         ref |-> [type |-> "CharRef", ch |-> c,
                                  name |-> EmptyStr]]))))))))
    ELSE Let(consume_name(s1), LAMBDA nm :
         IF ~nm.ok THEN RefErr(nm.s)
         ELSE Let(consume_byte(nm.s, A.semi), LAMBDA e :
              Let(Predefined(SpanBytes(nm.span)), LAMBDA c :
              IF ~e.ok THEN RefErr(e.s)
              ELSE [ok |-> TRUE, s |-> e.s, cause |-> "none",
                    ref |-> IF c # 0
                            THEN [type |-> "CharRef", ch |-> c,
                                  name |-> EmptyStr]
                            ELSE [type |-> "EntityRef", ch |-> 0,
                                  name |-> nm.span]]))))

\* a faulty try_consume_char_reference that leaves the position where the
\* failed attempt ended
try_consume_char_reference_no_reset(s) ==
    Let(consume_reference(s), LAMBDA r :
    IF r.ok /\ r.ref.type = "CharRef"
    THEN [some |-> TRUE, ch |-> r.ref.ch, s |-> r.s]
    ELSE [some |-> FALSE, ch |-> 0, s |-> r.s])

\* Stream::try_consume_char_reference
try_consume_char_reference(s) ==
    Let(consume_reference(s), LAMBDA r :
    IF r.ok /\ r.ref.type = "CharRef"
    THEN [some |-> TRUE, ch |-> r.ref.ch, s |-> r.s]
    ELSE [some |-> FALSE, ch |-> 0, s |-> Stream(s.pos, r.s.bad)])

\* (ch as u32) < 255 && (ch as u8).is_xml_space()
IsSpaceChar(ch) == ch < 255 /\ is_xml_space(ch)

\* a faulty skip_spaces that skips ASCII whitespace only, while
\* starts_with_space also takes a character reference to a space
skip_spaces_ascii_only(s) == skip_ascii_spaces(s)

\* Stream::skip_spaces
skip_spaces(s) ==
    LET f[i \in 0..End] ==
            IF i >= End THEN Stream(i, FALSE)
            ELSE IF is_xml_space(Byte(i)) THEN f[i + 1]
            ELSE IF Byte(i) = A.amp
            THEN Let(consume_reference(Stream(i, FALSE)), LAMBDA r :
                 IF r.ok /\ r.ref.type = "CharRef" /\ IsSpaceChar(r.ref.ch)
                 THEN Flag(f[r.s.pos], r.s.bad)
                 ELSE Stream(i, r.s.bad))
            ELSE Stream(i, FALSE)
    IN Flag(f[s.pos], s.bad)

\* Stream::starts_with_space
starts_with_space(s) ==
    IF at_end(s) THEN FALSE
    ELSE IF is_xml_space(Byte(s.pos)) THEN TRUE
    ELSE IF Byte(s.pos) = A.amp
    THEN Let(try_consume_char_reference(s), LAMBDA v :
         v.some /\ IsSpaceChar(v.ch))
    ELSE FALSE

\* Stream::consume_spaces
consume_spaces(s) ==
    IF ~at_end(s) /\ ~starts_with_space(s) THEN ErrAt(s, "InvalidSpace")
    ELSE Ok(skip_spaces(s))

(***************************************************************************)
(* Tokens and errors (src/src/lib.rs).                                     *)
(***************************************************************************)
\* a token: its variant, the ElementEnd variant, the value of `standalone`,
\* its span, and its other StrSpan fields by name (a None field is absent)
Tok(kind, span, fields) ==
    [kind |-> kind, end |-> "none", standalone |-> "none",
     span |-> span, fields |-> fields]

Fld(name, span) == [name |-> name, span |-> span]

NoTok == Tok("none", EmptyStr, <<>>)

NoErr ==
    [kind |-> "none", tt |-> "none", at |-> 0, cause |-> "none", pos |-> NoPos]

\* StreamResult<Token>
ROk(s, tok) == [ok |-> TRUE, s |-> s, cause |-> "none", tok |-> tok]

RErr(s, cause) == [ok |-> FALSE, s |-> s, cause |-> cause, tok |-> NoTok]

\* StreamResult<StrSpan> and StreamResult<Option<..>>
SOk(s, span, some) ==
    [ok |-> TRUE, s |-> s, cause |-> "none", span |-> span, some |-> some]

SErr(s, cause) ==
    [ok |-> FALSE, s |-> s, cause |-> cause, span |-> EmptyStr, some |-> FALSE]

\* Result<Token>: Ok(token) or Err(Error::..(token type, position, cause))
TOk(s, tok) == [ok |-> TRUE, s |-> s, tok |-> tok, err |-> NoErr]

TErr(s, kind, tt, at, cause) ==
    [ok |-> FALSE, s |-> Flag(s, gen_text_pos_from_panics(at)), tok |-> NoTok,
     err |-> [kind |-> kind, tt |-> tt, at |-> at, cause |-> cause,
              pos |-> gen_text_pos_from(at)]]

\* a faulty map_err_at! that reads the position after the parser has run
map_err_at_after(r, tt, entry, d) ==
    Let(r.s.pos + d, LAMBDA start :
    Let(Flag(r.s, start < 0), LAMBDA s1 :
    IF r.ok THEN TOk(s1, r.tok)
    ELSE TErr(s1, "InvalidToken", tt, IF start < 0 THEN 0 ELSE start, r.cause)))

\* map_err_at!: start = pos as isize + d, debug_assert!(start >= 0)
map_err_at(r, tt, entry, d) ==
    Let(entry.pos + d, LAMBDA start :
    Let(Flag(r.s, start < 0), LAMBDA s1 :
    IF r.ok THEN TOk(s1, r.tok)
    ELSE TErr(s1, "InvalidToken", tt, IF start < 0 THEN 0 ELSE start, r.cause)))

\* a faulty lead-in offset, one byte too long
LeadIn_too_long(s, k) == s.pos - k - 1

\* `s.pos() - k` on usize: the start of a construct whose lead-in has k bytes
LeadIn(s, k) == s.pos - k

\* str::contains on the bytes [from, to) of the span
Contains(from, to, t) ==
    \E i \in from..(to - Len(t)) :
        \A j \in 1..Len(t) : Byte(i + j - 1) = t[j]

\* Tokenizer::parse_version_info
parse_version_info(s) ==
    Let(skip_string(skip_spaces(s), S_version), LAMBDA r1 :
    IF ~r1.ok THEN SErr(r1.s, r1.cause) ELSE
    Let(consume_eq(r1.s), LAMBDA r2 :
    IF ~r2.ok THEN SErr(r2.s, r2.cause) ELSE
    Let(consume_quote(r2.s), LAMBDA r3 :
    IF ~r3.ok THEN SErr(r3.s, r3.cause) ELSE
    Let(skip_string(r3.s, S_onedot), LAMBDA r4 :
    IF ~r4.ok THEN SErr(r4.s, r4.cause) ELSE
    Let(skip_bytes(r4.s, {c \in AllBytes : is_xml_digit(c)}), LAMBDA s5 :
    Let(slice_back(s5, r3.s.pos), LAMBDA ver :
    Let(consume_byte(Flag(s5, slice_panics(s5, r3.s.pos)), r3.quote), LAMBDA r6 :
    IF ~r6.ok THEN SErr(r6.s, r6.cause) ELSE SOk(r6.s, ver, TRUE))))))))

EncNameByte(c) ==
    \/ is_xml_letter(c) \/ is_xml_digit(c)
    \/ c = A.dot \/ c = A.minus \/ c = A.us

\* Tokenizer::parse_encoding_decl
parse_encoding_decl(s) ==
    Let(skip_string(skip_spaces(s), S_encoding), LAMBDA r1 :
    IF ~r1.ok THEN SOk(r1.s, EmptyStr, FALSE) ELSE
    Let(consume_eq(r1.s), LAMBDA r2 :
    IF ~r2.ok THEN SErr(r2.s, r2.cause) ELSE
    Let(consume_quote(r2.s), LAMBDA r3 :
    IF ~r3.ok THEN SErr(r3.s, r3.cause) ELSE
    Let(skip_bytes(r3.s, {c \in AllBytes : EncNameByte(c)}), LAMBDA s4 :
    Let(slice_back(s4, r3.s.pos), LAMBDA name :
    Let(consume_byte(Flag(s4, slice_panics(s4, r3.s.pos)), r3.quote), LAMBDA r5 :
    IF ~r5.ok THEN SErr(r5.s, r5.cause) ELSE SOk(r5.s, name, TRUE)))))))

\* Tokenizer::parse_standalone: Ok(None), Ok(Some(true)), Ok(Some(false))
parse_standalone(s) ==
    LET fail(r) == [ok |-> FALSE, s |-> r.s, cause |-> r.cause, flag |-> "none"]
    IN
    Let(skip_string(skip_spaces(s), S_standalone), LAMBDA r1 :
    IF ~r1.ok
    THEN [ok |-> TRUE, s |-> r1.s, cause |-> "none", flag |-> "none"] ELSE
    Let(consume_eq(r1.s), LAMBDA r2 :
    IF ~r2.ok THEN fail(r2) ELSE
    Let(consume_quote(r2.s), LAMBDA r3 :
    IF ~r3.ok THEN fail(r3) ELSE
    Let(consume_name(r3.s), LAMBDA r4 :
    IF ~r4.ok THEN fail(r4) ELSE
    Let(SpanBytes(r4.span), LAMBDA value :
    IF value # S_yes /\ value # S_no
    THEN [ok |-> FALSE, s |-> Flag(r4.s, gen_text_pos_from_panics(r3.s.pos)),
          cause |-> "InvalidString", flag |-> "none"]
    ELSE Let(consume_byte(r4.s, r3.quote), LAMBDA r5 :
         IF ~r5.ok THEN fail(r5)
         ELSE [ok |-> TRUE, s |-> r5.s, cause |-> "none",
               flag |-> IF value = S_yes THEN "yes" ELSE "no"]))))))

\* Tokenizer::parse_declaration_impl
parse_declaration_impl(s) ==
    Let(LeadIn(s, 6), LAMBDA start :
    Let(parse_version_info(Flag(s, start < 0)), LAMBDA v :
    IF ~v.ok THEN RErr(v.s, v.cause) ELSE
    Let(parse_encoding_decl(v.s), LAMBDA e :
    IF ~e.ok THEN RErr(e.s, e.cause) ELSE
    Let(parse_standalone(e.s), LAMBDA sd :
    IF ~sd.ok THEN RErr(sd.s, sd.cause) ELSE
    Let(skip_string(skip_spaces(sd.s), S_pi_end), LAMBDA r :
    IF ~r.ok THEN RErr(r.s, r.cause) ELSE
    Let(<<Fld("version", v.span)>>
        \o (IF e.some THEN <<Fld("encoding", e.span)>> ELSE <<>>), LAMBDA flds :
    ROk(Flag(r.s, slice_panics(r.s, start)),
        [Tok("Declaration", slice_back(r.s, start), flds)
            EXCEPT !.standalone = sd.flag])))))))

\* Tokenizer::parse_declaration
parse_declaration(s) ==
    map_err_at(parse_declaration_impl(s), "XMLDecl", s, -6)

\* a faulty comment parser that takes any text up to the first `-->`
parse_comment_impl_unchecked(s) ==
    Let(LeadIn(s, 4), LAMBDA start :
    Let(consume_chars(Flag(s, start < 0), CharPred({A.minus}, S_cmt_end)),
        LAMBDA t :
    IF ~t.ok THEN RErr(t.s, t.cause) ELSE
    Let(slice_back(t.s, s.pos), LAMBDA txt :
    Let(skip_string(Flag(t.s, slice_panics(t.s, s.pos)), S_cmt_end), LAMBDA r :
    IF ~r.ok THEN RErr(r.s, r.cause)
    ELSE ROk(Flag(r.s, slice_panics(r.s, start)),
             Tok("Comment", slice_back(r.s, start), <<Fld("text", txt)>>))))))

\* Tokenizer::parse_comment_impl
parse_comment_impl(s) ==
    Let(LeadIn(s, 4), LAMBDA start :
    Let(consume_chars(Flag(s, start < 0), CharPred({A.minus}, S_cmt_end)),
        LAMBDA t :
    IF ~t.ok THEN RErr(t.s, t.cause) ELSE
    Let(slice_back(t.s, s.pos), LAMBDA txt :
    Let(skip_string(Flag(t.s, slice_panics(t.s, s.pos)), S_cmt_end), LAMBDA r :
    IF ~r.ok THEN RErr(r.s, r.cause) ELSE
    IF \/ Contains(s.pos, t.s.pos, S_mm)
       \/ (t.s.pos > s.pos /\ Byte(t.s.pos - 1) = A.minus)
    THEN RErr(r.s, "UnexpectedEndOfStream")
    ELSE ROk(Flag(r.s, slice_panics(r.s, start)),
             Tok("Comment", slice_back(r.s, start), <<Fld("text", txt)>>))))))

\* Tokenizer::parse_comment: the cause is dropped (None)
parse_comment(s) ==
    Let(LeadIn(s, 4), LAMBDA start :
    Let(parse_comment_impl(s), LAMBDA r :
    IF r.ok THEN TOk(r.s, r.tok)
    ELSE TErr(Flag(r.s, start < 0), "InvalidToken", "Comment", start, "none")))

\* Tokenizer::parse_pi_impl
parse_pi_impl(s) ==
    Let(LeadIn(s, 2), LAMBDA start :
    Let(consume_name(Flag(s, start < 0)), LAMBDA t :
    IF ~t.ok THEN RErr(t.s, t.cause) ELSE
    Let(skip_spaces(t.s), LAMBDA s1 :
    Let(consume_chars(s1, CharPred({A.qm}, S_pi_end)), LAMBDA c :
    IF ~c.ok THEN RErr(c.s, c.cause) ELSE
    Let(slice_back(c.s, s1.pos), LAMBDA content :
    Let(skip_string(Flag(c.s, slice_panics(c.s, s1.pos)), S_pi_end), LAMBDA r :
    IF ~r.ok THEN RErr(r.s, r.cause) ELSE
    Let(<<Fld("target", t.span)>>
        \o (IF SpanLen(content) # 0 THEN <<Fld("content", content)>>
            ELSE <<>>), LAMBDA flds :
    ROk(Flag(r.s, slice_panics(r.s, start)),
        Tok("ProcessingInstruction", slice_back(r.s, start), flds)))))))))

\* Tokenizer::parse_pi
parse_pi(s) == map_err_at(parse_pi_impl(s), "PI", s, -2)

\* a quoted literal: consume_quote, consume_bytes(|_, c| c != quote),
\* consume_byte(quote)
QuotedLiteral(s) ==
    Let(consume_quote(s), LAMBDA q :
    IF ~q.ok THEN SErr(q.s, q.cause) ELSE
    Let(skip_bytes(q.s, AllBytes \ {q.quote}), LAMBDA s1 :
    Let(slice_back(s1, q.s.pos), LAMBDA lit :
    Let(consume_byte(Flag(s1, slice_panics(s1, q.s.pos)), q.quote), LAMBDA r :
    IF ~r.ok THEN SErr(r.s, r.cause) ELSE SOk(r.s, lit, TRUE)))))

\* StreamResult<Option<ExternalId>>: `some` and the literals by name
XOk(s, some, fields) ==
    [ok |-> TRUE, s |-> s, cause |-> "none", some |-> some, fields |-> fields]

XErr(s, cause) ==
    [ok |-> FALSE, s |-> s, cause |-> cause, some |-> FALSE, fields |-> <<>>]

\* Tokenizer::parse_external_id
parse_external_id(s) ==
    IF ~(starts_with(s, S_SYSTEM) \/ starts_with(s, S_PUBLIC))
    THEN XOk(s, FALSE, <<>>)
    ELSE
    Let(advance(s, 6), LAMBDA s1 :
    Let(SpanBytes(slice_back(s1, s.pos)) = S_SYSTEM, LAMBDA system :
    Let(consume_spaces(Flag(s1, slice_panics(s1, s.pos))), LAMBDA sp1 :
    IF ~sp1.ok THEN XErr(sp1.s, sp1.cause) ELSE
    Let(QuotedLiteral(sp1.s), LAMBDA l1 :
    IF ~l1.ok THEN XErr(l1.s, l1.cause) ELSE
    IF system THEN XOk(l1.s, TRUE, <<Fld("system", l1.span)>>) ELSE
    Let(consume_spaces(l1.s), LAMBDA sp2 :
    IF ~sp2.ok THEN XErr(sp2.s, sp2.cause) ELSE
    Let(QuotedLiteral(sp2.s), LAMBDA l2 :
    IF ~l2.ok THEN XErr(l2.s, l2.cause)
    ELSE XOk(l2.s, TRUE,
             <<Fld("pubid", l1.span), Fld("system", l2.span)>>)))))))

\* Tokenizer::parse_doctype_impl
parse_doctype_impl(s) ==
    Let(LeadIn(s, 9), LAMBDA start :
    Let(consume_spaces(Flag(s, start < 0)), LAMBDA sp :
    IF ~sp.ok THEN RErr(sp.s, sp.cause) ELSE
    Let(consume_name(sp.s), LAMBDA nm :
    IF ~nm.ok THEN RErr(nm.s, nm.cause) ELSE
    Let(parse_external_id(skip_spaces(nm.s)), LAMBDA x :
    IF ~x.ok THEN RErr(x.s, x.cause) ELSE
    Let(skip_spaces(x.s), LAMBDA s1 :
    IF at_end(s1) THEN RErr(s1, "UnexpectedEndOfStream") ELSE
    Let(Byte(s1.pos), LAMBDA c :
    IF c # A.lbr /\ c # A.gt
    THEN RErr(Flag(s1, gen_text_pos_panics(s1.pos)), "InvalidCharMultiple")
    ELSE Let(advance(s1, 1), LAMBDA s2 :
         ROk(Flag(s2, slice_panics(s2, start)),
             Tok(IF c = A.lbr THEN "DtdStart" ELSE "EmptyDtd",
                 slice_back(s2, start),
                 <<Fld("name", nm.span)>> \o x.fields)))))))))

\* Tokenizer::parse_doctype
parse_doctype(s) == map_err_at(parse_doctype_impl(s), "DoctypeDecl", s, -9)

\* Tokenizer::parse_entity_def
parse_entity_def(s, is_ge) ==
    IF at_end(s) THEN XErr(s, "UnexpectedEndOfStream") ELSE
    Let(Byte(s.pos), LAMBDA c :
    IF c = A.dq \/ c = A.sq
    THEN Let(QuotedLiteral(s), LAMBDA l :
         IF ~l.ok THEN XErr(l.s, l.cause)
         ELSE XOk(l.s, TRUE, <<Fld("value", l.span)>>))
    ELSE IF c = A.upS \/ c = A.upP
    THEN Let(parse_external_id(s), LAMBDA x :
         IF ~x.ok THEN XErr(x.s, x.cause)
         ELSE IF ~x.some THEN XErr(x.s, "InvalidExternalID")
         ELSE IF ~is_ge THEN x
         ELSE Let(skip_spaces(x.s), LAMBDA s1 :
              IF ~starts_with(s1, S_NDATA) THEN XOk(s1, TRUE, x.fields)
              ELSE Let(consume_spaces(advance(s1, 5)), LAMBDA sp :
                   IF ~sp.ok THEN XErr(sp.s, sp.cause)
                   ELSE Let(skip_name(sp.s), LAMBDA n :
                        IF ~n.ok THEN XErr(n.s, n.cause)
                        ELSE XOk(n.s, TRUE, x.fields)))))
    ELSE XErr(Flag(s, gen_text_pos_panics(s.pos)), "InvalidCharMultiple"))

\* Tokenizer::parse_entity_decl_impl
parse_entity_decl_impl(s) ==
    Let(LeadIn(s, 8), LAMBDA start :
    Let(consume_spaces(Flag(s, start < 0)), LAMBDA sp :
    IF ~sp.ok THEN RErr(sp.s, sp.cause) ELSE
    Let(try_consume_byte(sp.s, A.pct), LAMBDA pc :
    Let(IF pc.hit THEN consume_spaces(pc.s) ELSE Ok(pc.s), LAMBDA sp2 :
    IF ~sp2.ok THEN RErr(sp2.s, sp2.cause) ELSE
    Let(consume_name(sp2.s), LAMBDA nm :
    IF ~nm.ok THEN RErr(nm.s, nm.cause) ELSE
    Let(consume_spaces(nm.s), LAMBDA sp3 :
    IF ~sp3.ok THEN RErr(sp3.s, sp3.cause) ELSE
    Let(parse_entity_def(sp3.s, ~pc.hit), LAMBDA d :
    IF ~d.ok THEN RErr(d.s, d.cause) ELSE
    Let(consume_byte(skip_spaces(d.s), A.gt), LAMBDA r :
    IF ~r.ok THEN RErr(r.s, r.cause)
    ELSE ROk(Flag(r.s, slice_panics(r.s, start)),
             Tok("EntityDeclaration", slice_back(r.s, start),
                 <<Fld("name", nm.span)>> \o d.fields))))))))))

\* Tokenizer::parse_entity_decl
parse_entity_decl(s) ==
    map_err_at(parse_entity_decl_impl(s), "EntityDecl", s, -8)

\* a faulty consume_decl that stops in front of the `>`
consume_decl_keeps_gt(s) ==
    Let(consume_spaces(s), LAMBDA sp :
    IF ~sp.ok THEN sp
    ELSE Ok(skip_bytes(sp.s, AllBytes \ {A.gt})))

\* Tokenizer::consume_decl
consume_decl(s) ==
    Let(consume_spaces(s), LAMBDA sp :
    IF ~sp.ok THEN sp
    ELSE consume_byte(skip_bytes(sp.s, AllBytes \ {A.gt}), A.gt))

\* a faulty CDATA parser that ends the text at the first `]`
parse_cdata_impl_first_bracket(s) ==
    Let(LeadIn(s, 9), LAMBDA start :
    Let(consume_chars(Flag(s, start < 0), CharPred({A.rbr}, <<A.rbr>>)),
        LAMBDA t :
    IF ~t.ok THEN RErr(t.s, t.cause) ELSE
    Let(skip_string(Flag(t.s, slice_panics(t.s, s.pos)), S_cd_end),
        LAMBDA r :
    IF ~r.ok THEN RErr(r.s, r.cause)
    ELSE ROk(Flag(r.s, slice_panics(r.s, start)),
             Tok("Cdata", slice_back(r.s, start),
                 <<Fld("text", slice_back(t.s, s.pos))>>)))))

\* Tokenizer::parse_cdata_impl
parse_cdata_impl(s) ==
    Let(LeadIn(s, 9), LAMBDA start :
    Let(consume_chars(Flag(s, start < 0), CharPred({A.rbr}, S_cd_end)),
        LAMBDA t :
    IF ~t.ok THEN RErr(t.s, t.cause) ELSE
    Let(skip_string(Flag(t.s, slice_panics(t.s, s.pos)), S_cd_end),
        LAMBDA r :
    IF ~r.ok THEN RErr(r.s, r.cause)
    ELSE ROk(Flag(r.s, slice_panics(r.s, start)),
             Tok("Cdata", slice_back(r.s, start),
                 <<Fld("text", slice_back(t.s, s.pos))>>)))))

\* Tokenizer::parse_cdata
parse_cdata(s) == map_err_at(parse_cdata_impl(s), "CDSect", s, -9)

\* a faulty parse_element_start_impl that wants a byte behind the name
parse_element_start_impl_needs_more(s) ==
    Let(LeadIn(s, 1), LAMBDA start :
    Let(consume_qname(Flag(s, start < 0)), LAMBDA q :
    IF ~q.ok THEN RErr(q.s, q.cause)
    ELSE IF at_end(q.s) THEN RErr(q.s, "UnexpectedEndOfStream")
    ELSE ROk(Flag(q.s, slice_panics(q.s, start)),
             Tok("ElementStart", slice_back(q.s, start),
                 <<Fld("prefix", q.prefix), Fld("local", q.local)>>))))

\* Tokenizer::parse_element_start_impl
parse_element_start_impl(s) ==
    Let(LeadIn(s, 1), LAMBDA start :
    Let(consume_qname(Flag(s, start < 0)), LAMBDA q :
    IF ~q.ok THEN RErr(q.s, q.cause)
    ELSE ROk(Flag(q.s, slice_panics(q.s, start)),
             Tok("ElementStart", slice_back(q.s, start),
                 <<Fld("prefix", q.prefix), Fld("local", q.local)>>))))

\* Tokenizer::parse_element_start
parse_element_start(s) ==
    map_err_at(parse_element_start_impl(s), "ElementStart", s, -1)

\* Token::ElementEnd { end, span }
ElementEndTok(end, span, fields) ==
    [Tok("ElementEnd", span, fields) EXCEPT !.end = end]

\* a faulty close-tag parser that matches the name against an open tag `a`
parse_close_element_impl_matching(s) ==
    Let(LeadIn(s, 2), LAMBDA start :
    Let(consume_qname(Flag(s, start < 0)), LAMBDA q :
    IF ~q.ok THEN RErr(q.s, q.cause) ELSE
    IF SpanBytes(q.local) # <<97>> THEN RErr(q.s, "InvalidName") ELSE
    Let(consume_byte(skip_spaces(q.s), A.gt), LAMBDA r :
    IF ~r.ok THEN RErr(r.s, r.cause)
    ELSE ROk(Flag(r.s, slice_panics(r.s, start)),
             ElementEndTok("Close", slice_back(r.s, start),
                 <<Fld("prefix", q.prefix), Fld("local", q.local)>>)))))

\* Tokenizer::parse_close_element_impl
parse_close_element_impl(s) ==
    Let(LeadIn(s, 2), LAMBDA start :
    Let(consume_qname(Flag(s, start < 0)), LAMBDA q :
    IF ~q.ok THEN RErr(q.s, q.cause) ELSE
    Let(consume_byte(skip_spaces(q.s), A.gt), LAMBDA r :
    IF ~r.ok THEN RErr(r.s, r.cause)
    ELSE ROk(Flag(r.s, slice_panics(r.s, start)),
             ElementEndTok("Close", slice_back(r.s, start),
                 <<Fld("prefix", q.prefix), Fld("local", q.local)>>)))))

\* Tokenizer::parse_close_element
parse_close_element(s) ==
    map_err_at(parse_close_element_impl(s), "ElementClose", s, -2)

\* a faulty attribute parser whose span takes in the whitespace behind the
\* closing quote
parse_attribute_with_trailing_space(s) ==
    Let(skip_spaces(s), LAMBDA s0 :
    IF ~at_end(s0) /\ Byte(s0.pos) = A.slash
    THEN Let(consume_byte(advance(s0, 1), A.gt), LAMBDA r :
         IF ~r.ok THEN RErr(r.s, r.cause)
         ELSE ROk(Flag(r.s, slice_panics(r.s, s0.pos)),
                  ElementEndTok("Empty", slice_back(r.s, s0.pos), <<>>)))
    ELSE IF ~at_end(s0) /\ Byte(s0.pos) = A.gt
    THEN Let(advance(s0, 1), LAMBDA s1 :
         ROk(Flag(s1, slice_panics(s1, s0.pos)),
             ElementEndTok("Open", slice_back(s1, s0.pos), <<>>)))
    ELSE
    Let(consume_qname(s0), LAMBDA q :
    IF ~q.ok THEN RErr(q.s, q.cause) ELSE
    Let(consume_eq(q.s), LAMBDA e :
    IF ~e.ok THEN RErr(e.s, e.cause) ELSE
    Let(consume_quote(e.s), LAMBDA qt :
    IF ~qt.ok THEN RErr(qt.s, qt.cause) ELSE
    Let(consume_chars(qt.s, CharPred({qt.quote, A.lt}, <<>>)), LAMBDA v :
    IF ~v.ok THEN RErr(v.s, v.cause) ELSE
    Let(consume_byte(Flag(v.s, slice_panics(v.s, qt.s.pos)), qt.quote),
        LAMBDA r :
    IF ~r.ok THEN RErr(r.s, r.cause)
    ELSE Let(skip_spaces(Flag(r.s, slice_panics(r.s, s0.pos))), LAMBDA s9 :
         ROk(s9,
             Tok("Attribute", slice_back(s9, s0.pos),
                 <<Fld("prefix", q.prefix), Fld("local", q.local),
                   Fld("value", slice_back(v.s, qt.s.pos))>>)))))))))

\* Tokenizer::parse_attribute
parse_attribute(s) ==
    Let(skip_spaces(s), LAMBDA s0 :
    IF ~at_end(s0) /\ Byte(s0.pos) = A.slash
    THEN Let(consume_byte(advance(s0, 1), A.gt), LAMBDA r :
         IF ~r.ok THEN RErr(r.s, r.cause)
         ELSE ROk(Flag(r.s, slice_panics(r.s, s0.pos)),
                  ElementEndTok("Empty", slice_back(r.s, s0.pos), <<>>)))
    ELSE IF ~at_end(s0) /\ Byte(s0.pos) = A.gt
    THEN Let(advance(s0, 1), LAMBDA s1 :
         ROk(Flag(s1, slice_panics(s1, s0.pos)),
             ElementEndTok("Open", slice_back(s1, s0.pos), <<>>)))
    ELSE
    Let(consume_qname(s0), LAMBDA q :
    IF ~q.ok THEN RErr(q.s, q.cause) ELSE
    Let(consume_eq(q.s), LAMBDA e :
    IF ~e.ok THEN RErr(e.s, e.cause) ELSE
    Let(consume_quote(e.s), LAMBDA qt :
    IF ~qt.ok THEN RErr(qt.s, qt.cause) ELSE
    Let(consume_chars(qt.s, CharPred({qt.quote, A.lt}, <<>>)), LAMBDA v :
    IF ~v.ok THEN RErr(v.s, v.cause) ELSE
    Let(consume_byte(Flag(v.s, slice_panics(v.s, qt.s.pos)), qt.quote),
        LAMBDA r :
    IF ~r.ok THEN RErr(r.s, r.cause)
    ELSE ROk(skip_spaces(Flag(r.s, slice_panics(r.s, s0.pos))),
             Tok("Attribute", slice_back(r.s, s0.pos),
                 <<Fld("prefix", q.prefix), Fld("local", q.local),
                   Fld("value", slice_back(v.s, qt.s.pos))>>))))))))

\* a faulty text parser without the search for `]]>`
parse_text_impl_unchecked(s) ==
    Let(consume_chars(s, CharPred({A.lt}, <<>>)), LAMBDA t :
    IF ~t.ok THEN RErr(t.s, t.cause) ELSE
    Let(slice_back(t.s, s.pos), LAMBDA txt :
    ROk(Flag(t.s, slice_panics(t.s, s.pos)),
        Tok("Text", txt, <<Fld("text", txt)>>))))

\* Tokenizer::parse_text_impl
parse_text_impl(s) ==
    Let(consume_chars(s, CharPred({A.lt}, <<>>)), LAMBDA t :
    IF ~t.ok THEN RErr(t.s, t.cause) ELSE
    Let(slice_back(t.s, s.pos), LAMBDA txt :
    Let(Flag(t.s, slice_panics(t.s, s.pos)), LAMBDA s1 :
    IF /\ Contains(s.pos, t.s.pos, <<A.gt>>)
       /\ Contains(s.pos, t.s.pos, S_cd_end)
    THEN RErr(s1, "InvalidCharacterData")
    ELSE ROk(s1, Tok("Text", txt, <<Fld("text", txt)>>)))))

\* Tokenizer::parse_text
parse_text(s) == map_err_at(parse_text_impl(s), "CharData", s, 0)

(***************************************************************************)
(* Dispatch (src/src/lib.rs).                                              *)
(***************************************************************************)
TT(s, tt) == [ok |-> TRUE, s |-> s, tt |-> tt]

TTErr(s) == [ok |-> FALSE, s |-> s, tt |-> "Unknown"]

\* the arms of `match c3` after `<!`
MarkupDeclType(s) ==
    IF Byte(s.pos) = A.minus /\ starts_with(s, S_mm)
    THEN TT(advance(s, 2), "Comment")
    ELSE IF starts_with(s, S_DOCTYPE) THEN TT(advance(s, 7), "DoctypeDecl")
    ELSE IF starts_with(s, S_ELEMENT) THEN TT(advance(s, 7), "ElementDecl")
    ELSE IF starts_with(s, S_ATTLIST) THEN TT(advance(s, 7), "AttlistDecl")
    ELSE IF starts_with(s, S_ENTITY) THEN TT(advance(s, 6), "EntityDecl")
    ELSE IF starts_with(s, S_NOTATION) THEN TT(advance(s, 8), "NotationDecl")
    ELSE IF starts_with(s, S_CDATA) THEN TT(advance(s, 7), "CDSect")
    ELSE TT(s, "Unknown")

\* a faulty dispatch that takes every target beginning with `xml` for the
\* XML declaration
parse_token_type_xml_prefix(s, st) ==
    IF at_end(s) THEN TTErr(s) ELSE
    Let(Byte(s.pos), LAMBDA c1 :
    IF c1 = A.lt
    THEN Let(advance(s, 1), LAMBDA s1 :
         IF at_end(s1) THEN TTErr(s1) ELSE
         Let(Byte(s1.pos), LAMBDA c2 :
         IF c2 = A.qm
         THEN IF starts_with(s1, SubSeq(S_qxml, 1, 4))
              THEN TT(advance(s1, 4), "XMLDecl")
              ELSE TT(advance(s1, 1), "PI")
         ELSE IF c2 = A.bang
         THEN Let(advance(s1, 1), LAMBDA s2 :
              IF at_end(s2) THEN TTErr(s2) ELSE MarkupDeclType(s2))
         ELSE IF c2 = A.slash THEN TT(advance(s1, 1), "ElementClose")
         ELSE TT(s1, "ElementStart")))
    ELSE IF c1 = A.rbr /\ st = "Dtd" /\ starts_with(s, S_dtdend)
    THEN TT(advance(s, 2), "DoctypeEnd")
    ELSE IF st \in {"Start", "AfterDtd", "AfterElements", "Dtd"}
    THEN IF starts_with_space(s) THEN TT(s, "Whitespace") ELSE TT(s, "Unknown")
    ELSE IF st = "Elements" THEN TT(s, "CharData")
    ELSE TT(s, "Unknown"))

\* Tokenizer::parse_token_type
parse_token_type(s, st) ==
    IF at_end(s) THEN TTErr(s) ELSE
    Let(Byte(s.pos), LAMBDA c1 :
    IF c1 = A.lt
    THEN Let(advance(s, 1), LAMBDA s1 :
         IF at_end(s1) THEN TTErr(s1) ELSE
         Let(Byte(s1.pos), LAMBDA c2 :
         IF c2 = A.qm
         THEN IF starts_with(s1, S_qxml) THEN TT(advance(s1, 5), "XMLDecl")
              ELSE TT(advance(s1, 1), "PI")
         ELSE IF c2 = A.bang
         THEN Let(advance(s1, 1), LAMBDA s2 :
              IF at_end(s2) THEN TTErr(s2) ELSE MarkupDeclType(s2))
         ELSE IF c2 = A.slash THEN TT(advance(s1, 1), "ElementClose")
         ELSE TT(s1, "ElementStart")))
    ELSE IF c1 = A.rbr /\ st = "Dtd" /\ starts_with(s, S_dtdend)
    THEN TT(advance(s, 2), "DoctypeEnd")
    ELSE IF st \in {"Start", "AfterDtd", "AfterElements", "Dtd"}
    THEN IF starts_with_space(s) THEN TT(s, "Whitespace") ELSE TT(s, "Unknown")
    ELSE IF st = "Elements" THEN TT(s, "CharData")
    ELSE TT(s, "Unknown"))

\* Option<Result<Token>>: None, Some(Ok(tok)) or Some(Err(err)); spin says
\* that the call re-entered itself without having consumed a byte
PNone(s) ==
    [some |-> FALSE, ok |-> FALSE, s |-> s, tok |-> NoTok, err |-> NoErr,
     spin |-> FALSE]

PSome(r) ==
    [some |-> TRUE, ok |-> r.ok, s |-> r.s, tok |-> r.tok, err |-> r.err,
     spin |-> FALSE]

PSpin(s) ==
    [some |-> FALSE, ok |-> FALSE, s |-> s, tok |-> NoTok, err |-> NoErr,
     spin |-> TRUE]

\* the gen_err! macro
gen_err(s, tt, start) ==
    IF tt = "Unknown" THEN PSome(TErr(s, "UnknownToken", "Unknown", start, "none"))
    ELSE PSome(TErr(s, "UnexpectedToken", tt, start, "none"))

\* a faulty table that lets a second root element start after the first
Accepts_second_root(st) ==
    CASE st = "Start" ->
            {"XMLDecl", "Comment", "PI", "DoctypeDecl", "ElementStart"}
      [] st = "Dtd" -> {"EntityDecl", "Comment", "PI", "DoctypeEnd"}
      [] st = "AfterDtd" -> {"Comment", "PI", "ElementStart"}
      [] st = "Elements" ->
            {"ElementStart", "ElementClose", "CDSect", "PI", "Comment",
             "CharData"}
      [] st = "AfterElements" -> {"Comment", "PI", "ElementStart"}
      [] OTHER -> {}

\* a faulty table that lets a second DOCTYPE follow the first
Accepts_second_doctype(st) ==
    CASE st = "Start" ->
            {"XMLDecl", "Comment", "PI", "DoctypeDecl", "ElementStart"}
      [] st = "Dtd" -> {"EntityDecl", "Comment", "PI", "DoctypeEnd"}
      [] st = "AfterDtd" -> {"Comment", "PI", "ElementStart", "DoctypeDecl"}
      [] st = "Elements" ->
            {"ElementStart", "ElementClose", "CDSect", "PI", "Comment",
             "CharData"}
      [] st = "AfterElements" -> {"Comment", "PI"}
      [] OTHER -> {}

\* a faulty table that takes an entity declaration after the DOCTYPE is over
Accepts_entity_after_dtd(st) ==
    CASE st = "Start" ->
            {"XMLDecl", "Comment", "PI", "DoctypeDecl", "ElementStart"}
      [] st = "Dtd" -> {"EntityDecl", "Comment", "PI", "DoctypeEnd"}
      [] st = "AfterDtd" -> {"Comment", "PI", "ElementStart", "EntityDecl"}
      [] st = "Elements" ->
            {"ElementStart", "ElementClose", "CDSect", "PI", "Comment",
             "CharData"}
      [] st = "AfterElements" -> {"Comment", "PI"}
      [] OTHER -> {}

\* the token types each state accepts, besides those it skips
Accepts(st) ==
    CASE st = "Start" ->
            {"XMLDecl", "Comment", "PI", "DoctypeDecl", "ElementStart"}
      [] st = "Dtd" -> {"EntityDecl", "Comment", "PI", "DoctypeEnd"}
      [] st = "AfterDtd" -> {"Comment", "PI", "ElementStart"}
      [] st = "Elements" ->
            {"ElementStart", "ElementClose", "CDSect", "PI", "Comment",
             "CharData"}
      [] st = "AfterElements" -> {"Comment", "PI"}
      [] OTHER -> {}

\* the parser each arm of parse_next_impl calls
ParseConstruct(s, tt, start) ==
    CASE tt = "XMLDecl" ->
            IF start = 0 THEN PSome(parse_declaration(s))
            ELSE gen_err(s, tt, start)
      [] tt = "Comment" -> PSome(parse_comment(s))
      [] tt = "PI" -> PSome(parse_pi(s))
      [] tt = "DoctypeDecl" -> PSome(parse_doctype(s))
      [] tt = "EntityDecl" -> PSome(parse_entity_decl(s))
      [] tt = "DoctypeEnd" ->
            Let(LeadIn(s, 2), LAMBDA from :
            PSome(TOk(Flag(s, from < 0 \/ slice_panics(s, from)),
                      Tok("DtdEnd", slice_back(s, from), <<>>))))
      [] tt = "ElementStart" -> PSome(parse_element_start(s))
      [] tt = "ElementClose" -> PSome(parse_close_element(s))
      [] tt = "CDSect" -> PSome(parse_cdata(s))
      [] tt = "CharData" -> PSome(parse_text(s))

\* a faulty skip that drops a byte order mark wherever the call starts
skip_bom_anywhere(s, start) ==
    IF starts_with(s, S_BOM) THEN advance(s, 3) ELSE s

\* `if start == 0 { if s.starts_with(&[0xEF, 0xBB, 0xBF]) { s.advance(3) } }`
skip_bom(s, start) ==
    IF start = 0 /\ starts_with(s, S_BOM) THEN advance(s, 3) ELSE s

RECURSIVE parse_next_impl(_, _)
\* Tokenizer::parse_next_impl
parse_next_impl(s, st) ==
    IF at_end(s) THEN PNone(s) ELSE
    Let(s.pos, LAMBDA start :
    Let(skip_bom(s, start), LAMBDA s0 :
    IF st = "End" THEN PNone(s0)
    ELSE IF st = "Attributes"
    THEN Let(parse_attribute(s0), LAMBDA r :
         IF r.ok THEN PSome(TOk(r.s, r.tok))
         ELSE PSome(TErr(r.s, "InvalidToken", "Attribute", start, r.cause)))
    ELSE
    Let(parse_token_type(s0, st), LAMBDA t :
    IF ~t.ok THEN PSome(TErr(t.s, "UnknownToken", "Unknown", start, "none"))
    ELSE IF t.tt = "Whitespace"
    THEN Let(skip_spaces(t.s), LAMBDA s1 :
         IF s1.pos = s.pos THEN PSpin(s1) ELSE parse_next_impl(s1, st))
    ELSE IF st = "Dtd" /\ t.tt \in {"ElementDecl", "NotationDecl", "AttlistDecl"}
    THEN Let(consume_decl(t.s), LAMBDA d :
         IF ~d.ok THEN gen_err(d.s, t.tt, start)
         ELSE IF d.s.pos = s.pos THEN PSpin(d.s)
         ELSE parse_next_impl(d.s, st))
    ELSE IF t.tt \in Accepts(st) THEN ParseConstruct(t.s, t.tt, start)
    ELSE gen_err(t.s, t.tt, start))))

(***************************************************************************)
(* The tokenizer as a state machine: one call of next() per step.          *)
(***************************************************************************)
\* the inputs: up to MaxChunks pieces of markup, all from one vocabulary
MaxChunks == 3

ElementChunks ==
    { <<60, 97>>,  \* <a
      <<62>>,  \* >
      <<47, 62>>,  \* />
      <<60, 47, 97, 62>>,  \* </a>
      <<32>>,  \*  
      <<120>>,  \* x
      <<32, 98, 61, 39, 118, 39>>,  \*  b='v'
      <<60, 33, 45, 45, 99, 45, 45, 62>>,  \* <!--c-->
      <<60, 63, 112, 63, 62>>,  \* <?p?>
      <<60, 33, 91, 67, 68, 65, 84, 65, 91, 93, 93, 62>>,  \* <![CDATA[]]>
      <<195, 169>>,  \* U+00E9
      <<93, 93, 62>>,  \* ]]>
      <<1>>,  \* U+0001
      <<38, 35, 120, 50, 48, 59>>,  \* &#x20;
      <<60, 47, 98, 62>>,  \* </b>
      <<98, 61, 39, 118, 39>>   \* b='v'
    }

PrologChunks ==
    { <<239, 187, 191>>,  \* U+FEFF, the byte order mark
      <<60, 63, 120, 109, 108, 32, 118, 101, 114, 115, 105, 111, 110, 61, 39, 49, 46, 48, 39, 63, 62>>,  \* <?xml version='1.0'?>
      <<60, 63, 120, 109, 108, 32>>,  \* <?xml 
      <<32>>,  \*  
      <<60, 33, 45, 45, 99, 45, 45, 62>>,  \* <!--c-->
      <<60, 63, 112, 63, 62>>,  \* <?p?>
      <<60, 33, 68, 79, 67, 84, 89, 80, 69, 32, 97>>,  \* <!DOCTYPE a
      <<62>>,  \* >
      <<93, 62>>,  \* ]>
      <<60, 33, 69, 78, 84, 73, 84, 89, 32, 101, 32, 39, 118, 39, 62>>,  \* <!ENTITY e 'v'>
      <<60, 97>>,  \* <a
      <<47, 62>>,  \* />
      <<120>>,  \* x
      <<60, 33, 68, 79, 67, 84, 89, 80, 69, 32, 97, 32, 91>>,  \* <!DOCTYPE a [
      <<93>>,  \* ]
      <<93, 32, 62>>   \* ] >
    }

CommentChunks ==
    { <<60, 33, 45, 45>>,  \* <!--
      <<45, 45, 62>>,  \* -->
      <<45>>,  \* -
      <<97>>,  \* a
      <<32>>,  \*  
      <<97, 45>>,  \* a-
      <<32, 45>>,  \*  -
      <<45, 45, 97>>,  \* --a
      <<62>>,  \* >
      <<33>>   \* !
    }

NameChunks ==
    { <<60>>,  \* <
      <<60, 47>>,  \* </
      <<97>>,  \* a
      <<58>>,  \* :
      <<58, 58>>,  \* ::
      <<45>>,  \* -
      <<49>>,  \* 1
      <<97, 58>>,  \* a:
      <<47, 62>>,  \* />
      <<62>>   \* >
    }

QuoteChunks ==
    { <<60, 99, 32, 97, 61, 39>>,  \* <c a='
      <<60, 99, 32, 32, 97, 32, 32, 61, 32, 32, 34>>,  \* <c  a  =  "
      <<39>>,  \* '
      <<34>>,  \* "
      <<120>>,  \* x
      <<60>>,  \* <
      <<1>>   \* U+0001
    }

BodyChunks ==
    { <<60, 33, 91, 67, 68, 65, 84, 65, 91>>,  \* <![CDATA[
      <<93, 93, 62>>,  \* ]]>
      <<60, 63, 112, 32>>,  \* <?p 
      <<63, 62>>,  \* ?>
      <<60, 33, 45, 45>>,  \* <!--
      <<45, 45, 62>>,  \* -->
      <<120>>,  \* x
      <<1>>,  \* U+0001
      <<239, 191, 191>>   \* U+FFFF
    }

DeclChunks ==
    { <<60, 63, 120, 109, 108, 32, 118, 101, 114, 115, 105, 111, 110, 61, 39, 49, 46, 48, 39>>,  \* <?xml version='1.0'
      <<32, 101, 110, 99, 111, 100, 105, 110, 103, 61, 39, 85, 39>>,  \*  encoding='U'
      <<101, 110, 99, 111, 100, 105, 110, 103, 61, 39, 85, 39>>,  \* encoding='U'
      <<32, 115, 116, 97, 110, 100, 97, 108, 111, 110, 101, 61, 39, 110, 111, 39>>,  \*  standalone='no'
      <<115, 116, 97, 110, 100, 97, 108, 111, 110, 101, 61, 39, 110, 111, 39>>,  \* standalone='no'
      <<115, 116, 97, 110, 100, 97, 108, 111, 110, 101, 61, 39, 110, 111, 39, 63, 62>>,  \* standalone='no'?>
      <<63, 62>>,  \* ?>
      <<32>>   \*  
    }

DtdChunks ==
    { <<60, 33, 68, 79, 67, 84, 89, 80, 69, 32, 97, 32, 91>>,  \* <!DOCTYPE a [
      <<60, 33, 69, 76, 69, 77, 69, 78, 84, 32, 97, 62>>,  \* <!ELEMENT a>
      <<60, 33, 65, 84, 84, 76, 73, 83, 84, 32, 97, 62>>,  \* <!ATTLIST a>
      <<60, 33, 78, 79, 84, 65, 84, 73, 79, 78, 32, 110, 62>>,  \* <!NOTATION n>
      <<60, 33, 69, 78, 84, 73, 84, 89, 32, 101, 32, 39, 118, 39, 62>>,  \* <!ENTITY e 'v'>
      <<60, 33, 69, 76, 69, 77, 69, 78, 84, 32, 97>>,  \* <!ELEMENT a
      <<60, 33, 69, 78, 84, 73, 84, 89, 32, 101>>,  \* <!ENTITY e
      <<93, 62>>,  \* ]>
      <<32>>   \*  
    }

PosChunks ==
    { <<10>>,  \* \n
      <<195, 169>>,  \* U+00E9
      <<120>>,  \* x
      <<60>>,  \* <
      <<195, 169, 10>>,  \* U+00E9 \n
      <<226, 130, 172, 120>>,  \* U+20AC x
      <<13, 10>>   \* \r \n
    }

PiChunks ==
    { <<60, 63, 120, 109, 108>>,  \* <?xml
      <<32>>,  \* space
      <<10>>,  \* line feed
      <<9>>,  \* tab
      <<45, 115, 116, 121, 108, 101, 115, 104, 101, 101, 116>>,  \* -stylesheet
      <<63, 62>>,  \* ?>
      <<32, 118, 101, 114, 115, 105, 111, 110, 61, 39, 49, 46, 48, 39>>,  \*  version='1.0'
      <<60, 63>>   \* <?
    }

CdataChunks ==
    { <<60, 33, 91, 67, 68, 65, 84, 65, 91>>,  \* <![CDATA[
      <<93>>,  \* ]
      <<93, 93>>,  \* ]]
      <<60>>,  \* <
      <<38>>,  \* &
      <<93, 93, 62>>   \* ]]>
    }

RefChunks ==
    { <<38>>,  \* &
      <<38, 35>>,  \* &#
      <<38, 35, 120>>,  \* &#x
      <<54, 52>>,  \* 64
      <<48>>,  \* 0
      <<70, 70, 70, 69>>,  \* FFFE
      <<68, 56, 48, 48>>,  \* D800
      <<70, 70, 70, 70, 70, 70, 70, 70>>,  \* FFFFFFFF
      <<49, 48, 48, 48, 48, 48, 48, 48, 48>>,  \* 100000000
      <<52, 50, 57, 52, 57, 54, 55, 50, 57, 53>>,  \* 4294967295
      <<52, 50, 57, 52, 57, 54, 55, 50, 57, 54>>,  \* 4294967296
      <<97, 109, 112>>,  \* amp
      <<114, 101, 102>>,  \* ref
      <<59>>   \* ;
    }

SpaceChunks ==
    { <<32>>,  \* space
      <<9>>,  \* tab
      <<38, 35, 120, 50, 48, 59>>,  \* &#x20;
      <<38, 35, 120, 57, 59>>,  \* &#x9;
      <<38, 35, 120, 52, 48, 59>>,  \* &#x40;
      <<38, 114, 101, 102, 59>>,  \* &ref;
      <<38, 97, 112, 111, 115, 59>>,  \* &apos;
      <<38, 113, 117, 111, 116, 59>>,  \* &quot;
      <<38, 108, 116, 59>>,  \* &lt;
      <<38, 103, 116, 59>>,  \* &gt;
      <<38, 35, 120, 50, 48>>,  \* &#x20
      <<120>>   \* x
    }

RECURSIVE Flatten(_)
Flatten(cs) == IF cs = <<>> THEN <<>> ELSE Head(cs) \o Flatten(Tail(cs))

Inputs(V) == { Flatten(cs) : cs \in UNION { [1..n -> V] : n \in 0..MaxChunks } }

\* Option<Result<Token>> as the caller sees it, with the state, the position
\* and the depth the call started from
Result(res, tok, err, from, pos0, depth0) ==
    [res |-> res, tok |-> tok, err |-> err, from |-> from, pos0 |-> pos0,
     depth0 |-> depth0]

\* Tokenizer::from(text), or Tokenizer::from(StrSpan) over the text without
\* its first byte when that byte is a space
Init ==
    /\ text \in Inputs(ElementChunks) \cup Inputs(PrologChunks)
                  \cup Inputs(CommentChunks) \cup Inputs(NameChunks)
                  \cup Inputs(QuoteChunks) \cup Inputs(BodyChunks)
                  \cup Inputs(DeclChunks) \cup Inputs(DtdChunks)
                  \cup Inputs(PosChunks) \cup Inputs(PiChunks)
                  \cup Inputs(CdataChunks)
    /\ spanStart \in {0} \cup {i \in {1} : Len(text) >= 1 /\ text[1] = A.sp}
    /\ pos = 0
    /\ state = "Start"
    /\ depth = 0
    /\ fragment_parsing = FALSE
    /\ last = Result("init", NoTok, NoErr, "Start", 0, 0)
    /\ prev = NoTok
    /\ hist = [somes |-> 0, errs |-> 0, bad |-> FALSE, spin |-> FALSE,
               dtds |-> 0, dtd_ends |-> 0, empty_dtd |-> FALSE,
               in_dtd |-> FALSE, elem |-> FALSE, again |-> FALSE]

\* Tokenizer::enable_fragment_mode, called as the constructor of a fragment
\* tokenizer: before the first call of next()
EnableFragmentMode ==
    /\ last.res = "init"
    /\ ~fragment_parsing
    /\ state' = "Elements"
    /\ fragment_parsing' = TRUE
    /\ last' = [last EXCEPT !.from = "Elements"]
    /\ UNCHANGED <<text, spanStart, pos, depth, prev, hist>>

\* a faulty depth update that decrements without the `depth > 0` guard
DepthAfter_unguarded(d, tok) ==
    IF tok.kind = "ElementEnd" /\ tok.end = "Open" THEN d + 1
    ELSE IF tok.kind = "ElementEnd" /\ tok.end = "Close" THEN d - 1
    ELSE d

\* the depth after a token (Iterator::next, the ElementEnd arm)
DepthAfter(d, tok) ==
    IF tok.kind = "ElementEnd" /\ tok.end = "Open" THEN d + 1
    ELSE IF tok.kind = "ElementEnd" /\ tok.end = "Close" /\ d > 0 THEN d - 1
    ELSE d

\* a faulty transition that forgets to enter Attributes after ElementStart
StateAfter_no_attributes(st, d, frag, tok) ==
    IF tok.kind = "ElementEnd"
    THEN IF d = 0 /\ ~frag THEN "AfterElements" ELSE "Elements"
    ELSE IF tok.kind = "DtdStart" THEN "Dtd"
    ELSE IF tok.kind \in {"EmptyDtd", "DtdEnd"} THEN "AfterDtd"
    ELSE st

\* a faulty transition that ignores fragment_parsing
StateAfter_ignores_fragment(st, d, frag, tok) ==
    IF tok.kind = "ElementStart" THEN "Attributes"
    ELSE IF tok.kind = "ElementEnd"
    THEN IF d = 0 THEN "AfterElements" ELSE "Elements"
    ELSE IF tok.kind = "DtdStart" THEN "Dtd"
    ELSE IF tok.kind \in {"EmptyDtd", "DtdEnd"} THEN "AfterDtd"
    ELSE st

\* a faulty transition that stays in Elements when the root element is closed
StateAfter_never_leaves_elements(st, d, frag, tok) ==
    IF tok.kind = "ElementStart" THEN "Attributes"
    ELSE IF tok.kind = "ElementEnd" THEN "Elements"
    ELSE IF tok.kind = "DtdStart" THEN "Dtd"
    ELSE IF tok.kind \in {"EmptyDtd", "DtdEnd"} THEN "AfterDtd"
    ELSE st

\* the state after a token (Iterator::next, the match on the token)
StateAfter(st, d, frag, tok) ==
    IF tok.kind = "ElementStart" THEN "Attributes"
    ELSE IF tok.kind = "ElementEnd"
    THEN IF d = 0 /\ ~frag THEN "AfterElements" ELSE "Elements"
    ELSE IF tok.kind = "DtdStart" THEN "Dtd"
    ELSE IF tok.kind \in {"EmptyDtd", "DtdEnd"} THEN "AfterDtd"
    ELSE st

\* Iterator::next for Tokenizer
Pull ==
    IF pos >= End \/ state = "End"
    THEN /\ last' = Result("None", NoTok, NoErr, state, pos, depth)
         /\ prev' = IF last.res = "Ok" THEN last.tok ELSE prev
         /\ UNCHANGED <<text, spanStart, pos, state, depth, fragment_parsing, hist>>
    ELSE
    Let(parse_next_impl(Stream(pos, FALSE), state), LAMBDA t :
    Let(DepthAfter(depth, t.tok), LAMBDA d :
       /\ pos' = IF t.some /\ ~t.ok THEN jump_to_end(t.s).pos ELSE t.s.pos
       /\ depth' = IF t.some /\ t.ok THEN d ELSE depth
       /\ state' = IF ~t.some THEN state
                   ELSE IF ~t.ok THEN "End"
                   ELSE StateAfter(state, d, fragment_parsing, t.tok)
       /\ last' = Result(IF ~t.some THEN "None" ELSE IF t.ok THEN "Ok" ELSE "Err",
                         t.tok, t.err, state, pos, depth)
       /\ prev' = IF last.res = "Ok" THEN last.tok ELSE prev
       /\ hist' = [somes |-> hist.somes + (IF t.some THEN 1 ELSE 0),
                   errs  |-> hist.errs + (IF t.some /\ ~t.ok THEN 1 ELSE 0),
                   bad   |-> hist.bad \/ t.s.bad,
                   spin  |-> hist.spin \/ t.spin,
                   dtds  |-> hist.dtds +
                       (IF t.tok.kind \in {"DtdStart", "EmptyDtd"} THEN 1 ELSE 0),
                   dtd_ends |-> hist.dtd_ends +
                       (IF t.tok.kind = "DtdEnd" THEN 1 ELSE 0),
                   empty_dtd |-> hist.empty_dtd \/ t.tok.kind = "EmptyDtd",
                   in_dtd |-> IF t.tok.kind = "DtdStart" THEN TRUE
                              ELSE IF t.tok.kind = "DtdEnd" THEN FALSE
                              ELSE hist.in_dtd,
                   elem  |-> hist.elem \/ t.tok.kind = "ElementStart",
                   again |-> hist.again]
       /\ UNCHANGED <<text, spanStart, fragment_parsing>>))

Next == EnableFragmentMode \/ Pull

Spec == Init /\ [][Next]_vars

\* one piece of every kind of token, and the byte order mark
FidelityChunks ==
    { <<239, 187, 191>>,  \* U+FEFF
      <<60, 63, 120, 109, 108, 32, 118, 101, 114, 115, 105, 111, 110, 61, 39, 49, 46, 48, 39, 63, 62>>,  \* <?xml version='1.0'?>
      <<60, 33, 68, 79, 67, 84, 89, 80, 69, 32, 97, 32, 91>>,  \* <!DOCTYPE a [
      <<60, 33, 68, 79, 67, 84, 89, 80, 69, 32, 97, 62>>,  \* <!DOCTYPE a>
      <<60, 33, 69, 78, 84, 73, 84, 89, 32, 101, 32, 39, 118, 39, 62>>,  \* <!ENTITY e 'v'>
      <<93, 32, 62>>,  \* ] >
      <<60, 97>>,  \* <a
      <<32, 98, 61, 39, 118, 39>>,  \*  b='v'
      <<62>>,  \* >
      <<47, 62>>,  \* />
      <<120>>,  \* x
      <<60, 47, 97, 62>>,  \* </a>
      <<60, 33, 45, 45, 99, 45, 45, 62>>,  \* <!--c-->
      <<60, 63, 112, 32, 99, 63, 62>>,  \* <?p c?>
      <<60, 33, 91, 67, 68, 65, 84, 65, 91, 120, 93, 93, 62>>   \* <![CDATA[x]]>
    }

\* Tokenizer::from(text) over the texts whose tokens are tokenized again
FidelityInit ==
    /\ text \in Inputs(FidelityChunks) \cup Inputs(QuoteChunks)
                  \cup Inputs(NameChunks) \cup Inputs(BodyChunks)
                  \cup Inputs(DeclChunks) \cup Inputs(DtdChunks)
    /\ spanStart \in {0} \cup {i \in {1} : Len(text) >= 1 /\ text[1] = A.sp}
    /\ pos = 0
    /\ state = "Start"
    /\ depth = 0
    /\ fragment_parsing = FALSE
    /\ last = Result("init", NoTok, NoErr, "Start", 0, 0)
    /\ prev = NoTok
    /\ hist = [somes |-> 0, errs |-> 0, bad |-> FALSE, spin |-> FALSE,
               dtds |-> 0, dtd_ends |-> 0, empty_dtd |-> FALSE,
               in_dtd |-> FALSE, elem |-> FALSE, again |-> FALSE]

\* a StrSpan of the old text as a span of its part that begins at byte k
ShiftSpan(sp, k) ==
    IF sp.own THEN [start |-> sp.start - k, end |-> sp.end - k, own |-> TRUE]
    ELSE sp

\* Tokenizer::from(&text[span.start..span.end]) for the span of the token the
\* latest call returned, put in the state and at the depth that call started
\* from; `prev` keeps the token, its spans counted from the start of the span
Retokenize ==
    /\ last.res = "Ok"
    /\ ~hist.bad
    /\ ~hist.again
    /\ text' = SubSeq(text, last.tok.span.start + 1, last.tok.span.end)
    /\ spanStart' = 0
    /\ pos' = 0
    /\ state' = last.from
    /\ depth' = last.depth0
    /\ prev' = [last.tok EXCEPT
                   !.span = ShiftSpan(last.tok.span, last.tok.span.start),
                   !.fields = [i \in 1..Len(last.tok.fields) |->
                       Fld(last.tok.fields[i].name,
                           ShiftSpan(last.tok.fields[i].span,
                                     last.tok.span.start))]]
    /\ last' = Result("again", NoTok, NoErr, last.from, 0, last.depth0)
    /\ hist' = [hist EXCEPT !.again = TRUE]
    /\ UNCHANGED fragment_parsing

FidelityNext == EnableFragmentMode \/ Pull \/ Retokenize

FidelitySpec == FidelityInit /\ [][FidelityNext]_vars

(***************************************************************************)
(* The public functions of Stream, called one at a time on a stream over   *)
(* the text or over the text behind its first byte.  `last` is the latest  *)
(* call: the function, the position it was called at, its argument and     *)
(* what it returned; hist.bad says that it panicked.                       *)
(***************************************************************************)
\* Stream::from(text), or Stream::from(StrSpan) over a sub-span that starts
\* at offset 1, for the calls of gen_text_pos_from
PosInit ==
    /\ text \in Inputs(PosChunks)
    /\ spanStart \in {i \in 0..1 : i <= Len(text) /\ is_char_boundary(i)}
    /\ pos = 0
    /\ state = "Start"
    /\ depth = 0
    /\ fragment_parsing = FALSE
    /\ last = Result("init", NoTok, NoErr, "Start", 0, 0)
    /\ prev = NoTok
    /\ hist = [somes |-> 0, errs |-> 0, bad |-> FALSE, spin |-> FALSE,
               dtds |-> 0, dtd_ends |-> 0, empty_dtd |-> FALSE,
               in_dtd |-> FALSE, elem |-> FALSE, again |-> FALSE]

\* a call of Stream::gen_text_pos_from(p) on a stream that has not panicked
GenTextPosFrom ==
    /\ ~hist.bad
    /\ \E p \in 0..(Len(text) + 2) :
           /\ last' = [res |-> "gen_text_pos_from", pos0 |-> pos, arg |-> p,
                       ret |-> gen_text_pos_from(p)]
           /\ hist' = [hist EXCEPT !.bad = gen_text_pos_from_panics(p)]
    /\ UNCHANGED <<text, spanStart, pos, state, depth, fragment_parsing, prev>>

\* a call of Stream::skip_spaces at the current position
SkipSpaces ==
    /\ ~hist.bad
    /\ Let(skip_spaces(Stream(pos, FALSE)), LAMBDA s :
           /\ pos' = s.pos
           /\ last' = [res |-> "skip_spaces", pos0 |-> pos, arg |-> 0,
                       ret |-> <<>>]
           /\ hist' = [hist EXCEPT !.bad = s.bad])
    /\ UNCHANGED <<text, spanStart, state, depth, fragment_parsing, prev>>

PosNext == GenTextPosFrom \/ SkipSpaces

PosSpec == PosInit /\ [][PosNext]_vars

\* Stream::from(text), or Stream::from(StrSpan) over a sub-span that starts
\* at offset 1, for the calls that read references
StreamInit ==
    /\ text \in Inputs(RefChunks) \cup Inputs(SpaceChunks)
    /\ spanStart \in {i \in 0..1 : i <= Len(text) /\ is_char_boundary(i)}
    /\ pos = 0
    /\ state = "Start"
    /\ depth = 0
    /\ fragment_parsing = FALSE
    /\ last = Result("init", NoTok, NoErr, "Start", 0, 0)
    /\ prev = NoTok
    /\ hist = [somes |-> 0, errs |-> 0, bad |-> FALSE, spin |-> FALSE,
               dtds |-> 0, dtd_ends |-> 0, empty_dtd |-> FALSE,
               in_dtd |-> FALSE, elem |-> FALSE, again |-> FALSE]

\* a call of Stream::try_consume_char_reference at the current position
TryConsumeCharReference ==
    /\ ~hist.bad
    /\ Let(try_consume_char_reference(Stream(pos, FALSE)), LAMBDA r :
           /\ pos' = r.s.pos
           /\ last' = [res |-> "try_consume_char_reference", pos0 |-> pos,
                       arg |-> 0, ret |-> [some |-> r.some, ch |-> r.ch]]
           /\ hist' = [hist EXCEPT !.bad = r.s.bad])
    /\ UNCHANGED <<text, spanStart, state, depth, fragment_parsing, prev>>

\* a call of Stream::consume_reference at the current position
ConsumeReference ==
    /\ ~hist.bad
    /\ Let(consume_reference(Stream(pos, FALSE)), LAMBDA r :
           /\ pos' = r.s.pos
           /\ last' = [res |-> "consume_reference", pos0 |-> pos, arg |-> 0,
                       ret |-> [ok |-> r.ok, cause |-> r.cause, ref |-> r.ref]]
           /\ hist' = [hist EXCEPT !.bad = r.s.bad])
    /\ UNCHANGED <<text, spanStart, state, depth, fragment_parsing, prev>>

StreamNext == TryConsumeCharReference \/ ConsumeReference \/ SkipSpaces

StreamSpec == StreamInit /\ [][StreamNext]_vars

(***************************************************************************)
(* Properties of the tokenizer.  `last` is the result of the latest call   *)
(* of next(), `prev` the token before it, `hist` counts over all calls.    *)
(***************************************************************************)

\* C1: pulling tokens to exhaustion never panics, in document mode and in
\* fragment mode: every advance(n) stays within the span, every lead-in
\* subtraction pos - k is >= 0, and every slice is within bounds and on
\* code-point boundaries (hist.bad records the first failure of any of them).
C1_NoPanic == ~hist.bad

\* a run pulled to exhaustion through tokens and an error
C1_Witness ==
    /\ last.res = "None"
    /\ hist.somes >= 3
    /\ hist.errs = 1
    /\ prev.kind = "ElementEnd"

\* C2: after a call returned Some(Err(_)) the cursor is at the end of the
\* input and the state is End; every later call returns None, so a tokenizer
\* produces at most one error.
C2_ErrorIsTerminal ==
    /\ last.res = "Err" => pos = End /\ state = "End"
    /\ hist.errs <= 1
    /\ hist.errs >= 1 /\ last.res # "Err" =>
           last.res = "None" /\ pos = End /\ state = "End"

\* an error found before the end of the input, then a call that returned None
C2_Witness ==
    /\ hist.errs = 1
    /\ last.res = "None"
    /\ hist.somes >= 2
    /\ End >= 4

\* C3: an input of N bytes yields at most N results that are Some; every call
\* that returns a token or an error moves the cursor forward by at least one
\* byte, and the re-dispatch after whitespace or a skipped declaration never
\* re-enters without having consumed a byte (hist.spin).
C3_Terminates ==
    /\ hist.somes <= End
    /\ ~hist.spin
    /\ last.res \in {"Ok", "Err"} => last.pos0 < pos
    /\ last.res = "None" => pos >= End \/ state = "End"

\* a token returned by a call that first skipped whitespace and re-dispatched
C3_Witness ==
    /\ last.res = "Ok"
    /\ hist.somes >= 2
    /\ last.tok.span.start > spanStart + last.pos0

\* C4: tokens come in source order: the span of a token ends at or before the
\* start of the span of the next one, and no call moves the cursor backwards.
C4_SourceOrder ==
    /\ last.res = "Ok" /\ prev.kind # "none" =>
           /\ prev.span.end <= last.tok.span.start
           /\ prev.span.start <= last.tok.span.start
    /\ last.pos0 <= pos

\* a third token that starts exactly where the second one ended
C4_Witness ==
    /\ last.res = "Ok"
    /\ hist.somes >= 3
    /\ prev.kind # "none"
    /\ prev.span.end = last.tok.span.start

\* C5: the span of every token, and every span it carries as a field, lies
\* within the input with 0 <= start <= end <= |input|, both ends on
\* code-point boundaries.
C5_SpansInBounds ==
    last.res = "Ok" =>
        \A sp \in {last.tok.span}
                  \cup {last.tok.fields[i].span : i \in 1..Len(last.tok.fields)} :
            /\ 0 <= sp.start
            /\ sp.start <= sp.end
            /\ sp.end <= Len(text)
            /\ is_char_boundary(sp.start)
            /\ is_char_boundary(sp.end)

\* a Text token made of a two-byte character, after other tokens
C5_Witness ==
    /\ last.res = "Ok"
    /\ last.tok.kind = "Text"
    /\ hist.somes >= 2
    /\ SpanLen(last.tok.span) >= 2
    /\ text[last.tok.span.start + 1] >= 128

\* C6: an ElementStart is followed by Attribute tokens and then by an
\* ElementEnd that is Open or Empty, unless an error or the end of the input
\* comes first; Attribute, ElementEnd(Open) and ElementEnd(Empty) come only
\* from the Attributes state, that is right after an ElementStart or another
\* Attribute.
C6_AttributesFollowStart ==
    LET InTag(tok) ==
            \/ tok.kind = "Attribute"
            \/ tok.kind = "ElementEnd" /\ tok.end \in {"Open", "Empty"}
    IN /\ last.res = "Ok" /\ InTag(last.tok) =>
              /\ last.from = "Attributes"
              /\ prev.kind \in {"ElementStart", "Attribute"}
       /\ last.res = "Ok" /\ prev.kind \in {"ElementStart", "Attribute"} =>
              InTag(last.tok)
       /\ last.res = "Ok" /\ last.from = "Attributes" => InTag(last.tok)
       /\ state = "Attributes" <=>
              /\ last.res \in {"Ok", "None"}
              /\ \/ last.res = "Ok"
                    /\ last.tok.kind \in {"ElementStart", "Attribute"}
                 \/ last.res = "None" /\ last.from = "Attributes"

\* an ElementEnd(Open) right after an Attribute
C6_Witness ==
    /\ last.res = "Ok"
    /\ last.tok.kind = "ElementEnd"
    /\ last.tok.end = "Open"
    /\ prev.kind = "Attribute"

C8_FragmentStaysInElements ==
    fragment_parsing =>
        /\ state # "AfterElements"
        /\ last.from # "AfterElements"
        /\ last.res = "init" => state = "Elements"
        /\ last.res = "Ok" /\ last.tok.kind = "ElementEnd" => state = "Elements"
        /\ last.res = "Ok" /\ last.from = "Elements" =>
               state \in {"Elements", "Attributes"}
        /\ last.res = "Err" /\ last.from = "Elements"
               /\ last.err.kind # "InvalidToken" =>
               last.err.tt \notin {"ElementStart", "ElementClose", "CDSect",
                                  "PI", "Comment", "CharData", "Whitespace"}

\* a second top-level element closed at depth 0 in fragment mode
C8_Witness ==
    /\ fragment_parsing
    /\ last.res = "Ok"
    /\ last.tok.kind = "ElementEnd"
    /\ depth = 0
    /\ hist.somes >= 3
    /\ state = "Elements"

\* C9: the depth is never negative: ElementEnd(Open) adds one,
\* ElementEnd(Close) takes one away when the depth is above 0 and leaves it
\* at 0 otherwise, ElementEnd(Empty) and every other result leave it as it
\* was.
C9_DepthSaturates ==
    /\ depth >= 0
    /\ last.depth0 >= 0
    /\ depth =
           IF last.res = "Ok" /\ last.tok.kind = "ElementEnd"
              /\ last.tok.end = "Open"
           THEN last.depth0 + 1
           ELSE IF last.res = "Ok" /\ last.tok.kind = "ElementEnd"
                   /\ last.tok.end = "Close" /\ last.depth0 > 0
           THEN last.depth0 - 1
           ELSE last.depth0

\* a close tag met at depth 0, which stays 0
C9_Witness ==
    /\ last.res = "Ok"
    /\ last.tok.kind = "ElementEnd"
    /\ last.tok.end = "Close"
    /\ last.depth0 = 0
    /\ depth = 0

\* C10: a Declaration is the first result of a tokenizer and starts at byte 0
\* of the input, or right after a byte order mark; `<?xml ` met anywhere
\* later in the prolog gives UnknownToken at its position, so there is at
\* most one Declaration.
C10_DeclarationOnlyFirst ==
    /\ last.res = "Ok" /\ last.tok.kind = "Declaration" =>
           /\ hist.somes = 1
           /\ \/ last.tok.span.start = spanStart
              \/ /\ last.tok.span.start = spanStart + 3
                 /\ starts_with(Stream(0, FALSE), S_BOM)
    /\ last.res = "Err" /\ last.from = "Start" /\ last.err.at > 0
           /\ starts_with(Stream(last.err.at, FALSE), <<A.lt>> \o S_qxml) =>
           last.err.kind = "UnknownToken"

\* C11: DtdStart and EmptyDtd together occur at most once in a run, only from
\* the Start state: never after an ElementStart and never in fragment mode.
\* When a call meets `<!DOCTYPE` at its dispatch point after the DOCTYPE was
\* emitted or after the root element started (states Dtd, AfterDtd, Elements,
\* AfterElements), it returns an error at the position of that `<`.
C11_OneDoctype ==
    LET at == IF last.from \in {"Dtd", "AfterDtd", "AfterElements"}
              THEN skip_spaces(Stream(last.pos0, FALSE)).pos
              ELSE last.pos0
    IN /\ hist.dtds <= 1
       /\ last.res = "Ok" /\ last.tok.kind \in {"DtdStart", "EmptyDtd"} =>
              /\ last.from = "Start"
              /\ ~fragment_parsing
              /\ ~hist.elem
       /\ hist.dtds >= 1 \/ hist.elem \/ fragment_parsing =>
              last.res = "init" \/ last.res = "Err" \/ state # "Start"
       /\ (/\ last.from \in {"Dtd", "AfterDtd", "Elements", "AfterElements"}
           /\ last.res # "init"
           /\ starts_with(Stream(at, FALSE), <<A.lt, A.bang>> \o S_DOCTYPE)) =>
              /\ last.res = "Err"
              /\ last.err.at = at
              /\ last.err.tt = "DoctypeDecl"

\* a second DOCTYPE refused right after an EmptyDtd
C11_Witness ==
    /\ last.res = "Err"
    /\ last.from = "AfterDtd"
    /\ last.err.tt = "DoctypeDecl"
    /\ hist.dtds = 1
    /\ hist.empty_dtd
    /\ last.err.at > 0

\* C12: EntityDeclaration and DtdEnd come only from the Dtd state, that is
\* after a DtdStart and before its DtdEnd (hist.in_dtd); the only tokens of
\* the Dtd state are EntityDeclaration, Comment, ProcessingInstruction and
\* DtdEnd; a run has at most one DtdEnd, none without a DtdStart and none
\* after an EmptyDtd.
C12_DtdSection ==
    /\ state = "Dtd" => hist.in_dtd
    /\ hist.in_dtd => state \in {"Dtd", "End"} /\ hist.dtd_ends = 0
    /\ last.res = "Ok" /\ last.tok.kind \in {"EntityDeclaration", "DtdEnd"} =>
           /\ last.from = "Dtd"
           /\ hist.dtds = 1
           /\ ~hist.empty_dtd
    /\ last.res = "Ok" /\ last.tok.kind = "EntityDeclaration" =>
           hist.in_dtd /\ state = "Dtd"
    /\ last.res = "Ok" /\ last.tok.kind = "DtdEnd" =>
           ~hist.in_dtd /\ state = "AfterDtd"
    /\ last.res = "Ok" /\ last.from = "Dtd" =>
           last.tok.kind \in {"EntityDeclaration", "Comment",
                              "ProcessingInstruction", "DtdEnd"}
    /\ last.res = "Ok" /\ last.tok.kind = "DtdStart" => state = "Dtd"
    /\ last.res = "Ok" /\ last.tok.kind = "EmptyDtd" => state = "AfterDtd"
    /\ hist.dtd_ends <= 1
    /\ hist.dtd_ends <= hist.dtds
    /\ hist.empty_dtd => hist.dtd_ends = 0

\* a DtdEnd right after an EntityDeclaration
C12_Witness ==
    /\ last.res = "Ok"
    /\ last.tok.kind = "DtdEnd"
    /\ prev.kind = "EntityDeclaration"
    /\ hist.dtds = 1
    /\ hist.dtd_ends = 1

\* C13: every error that dispatch produces, for bytes that are no legal
\* lead-in of the current state or a lead-in that is legal only in another
\* state, is UnknownToken, at a position from the start of the call on and
\* within the input; the only other errors are those of the construct
\* parsers (InvalidToken).
C13_DispatchUnknownToken ==
    last.res = "Err" =>
        /\ last.err.kind \in {"UnknownToken", "InvalidToken"}
        /\ last.err.kind = "UnknownToken" =>
               /\ last.err.at >= last.pos0
               /\ last.err.at < End
               /\ last.from # "Attributes"

C16_NoTreeValidation ==
    /\ \A n \in {97, 98} :
           (/\ last.from = "Elements"
            /\ last.res # "init"
            /\ starts_with(Stream(last.pos0, FALSE), <<60, 47, n, 62>>)) =>
               /\ last.res = "Ok"
               /\ last.tok.kind = "ElementEnd"
               /\ last.tok.end = "Close"
               /\ last.tok.span.start = spanStart + last.pos0
               /\ last.tok.span.end = spanStart + last.pos0 + 4
               /\ SpanBytes(last.tok.fields[2].span) = <<n>>
    /\ last.res # "init" /\ last.pos0 >= End => last.res = "None"
    /\ last.res = "Err" => last.pos0 < End /\ last.err.at < End

\* `</b>` closing an element that an open tag of another name opened
C16_Witness ==
    /\ last.res = "Ok"
    /\ last.tok.kind = "ElementEnd"
    /\ last.tok.end = "Close"
    /\ SpanBytes(last.tok.fields[2].span) = <<98>>
    /\ prev.kind = "ElementEnd"
    /\ prev.end = "Open"
    /\ last.depth0 = 1
    /\ hist.errs = 0

\* C17: an Attribute token is preceded by at least one XML whitespace byte
\* that the same call skipped; in the Attributes state a first byte that is
\* neither whitespace nor `/` nor `>` gives an InvalidToken error for
\* Attribute with cause InvalidSpace, so `<c a='v'b='v'/>` gives one
\* Attribute and then the error.
C17_AttributeNeedsSpace ==
    /\ last.res = "Ok" /\ last.tok.kind = "Attribute" =>
           /\ last.tok.span.start > spanStart + last.pos0
           /\ is_xml_space(Byte(last.tok.span.start - spanStart - 1))
    /\ (/\ last.from = "Attributes"
        /\ last.res \in {"Ok", "Err"}
        /\ last.pos0 < End
        /\ ~is_xml_space(Byte(last.pos0))
        /\ Byte(last.pos0) \notin {A.slash, A.gt}) =>
           /\ last.res = "Err"
           /\ last.err.kind = "InvalidToken"
           /\ last.err.tt = "Attribute"
           /\ last.err.cause = "InvalidSpace"

\* C18: only space, tab, LF and CR are whitespace: outside the DTD, every
\* byte that a call skips before its token (after the byte order mark) is
\* one of these four, and a call that meets the character reference `&#x20;`
\* at document level returns UnknownToken at its `&`.
C18_AsciiWhitespaceOnly ==
    LET p == IF last.pos0 = 0 /\ starts_with(Stream(0, FALSE), S_BOM)
             THEN 3 ELSE last.pos0
    IN /\ last.res = "Ok" /\ last.from # "Dtd" =>
              \A i \in p..(last.tok.span.start - spanStart - 1) :
                  is_xml_space(Byte(i))
       /\ (/\ last.from \in {"Start", "Dtd", "AfterDtd", "AfterElements"}
           /\ last.res # "init"
           /\ starts_with(Stream(last.pos0, FALSE), <<38, 35, 120, 50, 48, 59>>)) =>
              /\ last.res = "Err"
              /\ last.err.kind = "UnknownToken"
              /\ last.err.at = last.pos0

\* C19: the bytes EF BB BF are skipped only by a call that starts at offset
\* 0, and the token of that call starts 3 bytes later (after the whitespace
\* that follows, at document level).  No call skips a byte EF anywhere
\* else: met at a later offset it starts a Text token (or a character-data
\* error) in the Elements state and gives UnknownToken at its position at
\* document level.
C19_BomOnlyAtStart ==
    LET bom == starts_with(Stream(0, FALSE), S_BOM)
        gap == last.pos0..(last.tok.span.start - spanStart - 1)
        p == skip_spaces(Stream(last.pos0, FALSE)).pos
    IN /\ last.res = "Ok" /\ last.pos0 = 0 /\ bom =>
              last.tok.span.start =
                  spanStart + (IF last.from = "Elements" THEN 3
                               ELSE skip_spaces(Stream(3, FALSE)).pos)
       /\ last.res = "Ok" /\ last.from # "Dtd" =>
              \A i \in gap : Byte(i) = 239 => i = 0 /\ bom
       /\ last.res = "Ok" /\ last.pos0 = 0 /\ ~bom /\ last.from = "Elements" =>
              last.tok.span.start = spanStart
       /\ (/\ last.from = "Elements"
           /\ last.res \in {"Ok", "Err"}
           /\ last.pos0 > 0
           /\ Byte(last.pos0) = 239) =>
              \/ /\ last.res = "Ok"
                 /\ last.tok.kind = "Text"
                 /\ last.tok.span.start = spanStart + last.pos0
              \/ /\ last.res = "Err"
                 /\ last.err.tt = "CharData"
                 /\ last.err.at = last.pos0
       /\ (/\ last.from \in {"Start", "Dtd", "AfterDtd", "AfterElements"}
           /\ last.res \in {"Ok", "Err"}
           /\ p > 0
           /\ p < End
           /\ Byte(p) = 239) =>
              /\ last.res = "Err"
              /\ last.err.kind = "UnknownToken"
              /\ last.err.at = p

\* `<a` right after the byte order mark: ElementStart over 3..5
C19_Witness ==
    /\ last.res = "Ok"
    /\ last.pos0 = 0
    /\ spanStart = 0
    /\ starts_with(Stream(0, FALSE), S_BOM)
    /\ last.tok.kind = "ElementStart"
    /\ last.tok.span.start = 3
    /\ last.tok.span.end = 5

\* C20: in the Dtd state a `]` at the dispatch point p, followed by any
\* number of whitespace bytes and then `>`, gives a DtdEnd token from the `]`
\* through the `>` and the state AfterDtd; followed by the end of the input
\* or any other byte it gives an InvalidToken error for the DOCTYPE at p.
C20_DtdEnd ==
    LET p == skip_spaces(Stream(last.pos0, FALSE)).pos
        q == skip_ascii_spaces(Stream(p + 1, FALSE)).pos
    IN (/\ last.from = "Dtd"
        /\ last.res \in {"Ok", "Err"}
        /\ p < End
        /\ Byte(p) = A.rbr) =>
           IF q < End /\ Byte(q) = A.gt
           THEN /\ last.res = "Ok"
                /\ last.tok.kind = "DtdEnd"
                /\ last.tok.span.start = spanStart + p
                /\ last.tok.span.end = spanStart + q + 1
                /\ state = "AfterDtd"
           ELSE /\ last.res = "Err"
                /\ last.err.kind = "InvalidToken"
                /\ last.err.tt = "DoctypeDecl"
                /\ last.err.at = p

\* C21: the qualified name of an ElementStart, an ElementEnd(Close) or an
\* Attribute holds at most one `:` (none in the prefix, none in the local
\* part) and its local part is not empty; a name with two or more colons or
\* with an empty local part gives an error with cause InvalidName.
C21_OneColon ==
    LET named == \/ last.tok.kind \in {"ElementStart", "Attribute"}
                 \/ last.tok.kind = "ElementEnd" /\ last.tok.end = "Close"
        prefix == SpanBytes(last.tok.fields[1].span)
        local == SpanBytes(last.tok.fields[2].span)
    IN last.res = "Ok" /\ named =>
           /\ \A i \in 1..Len(prefix) : prefix[i] # A.colon
           /\ \A i \in 1..Len(local) : local[i] # A.colon
           /\ Len(local) > 0

\* C22: the local part of the name of an ElementStart, an ElementEnd(Close)
\* or an Attribute begins with a NameStartChar, and so does its prefix when
\* it is not empty: never with `-`, `.` or a digit.
C22_NameStart ==
    LET named == \/ last.tok.kind \in {"ElementStart", "Attribute"}
                 \/ last.tok.kind = "ElementEnd" /\ last.tok.end = "Close"
        prefix == last.tok.fields[1].span
        local == last.tok.fields[2].span
    IN last.res = "Ok" /\ named =>
           /\ SpanLen(local) > 0
           /\ is_xml_name_start(CharAt(local.start - spanStart))
           /\ SpanLen(prefix) > 0 =>
                  is_xml_name_start(CharAt(prefix.start - spanStart))

\* C23: the text of a Text, Cdata or Comment token, the content of a
\* ProcessingInstruction and the value of an Attribute hold XML Chars only
\* (#x9, #xA, #xD, #x20-#xD7FF, #xE000-#xFFFD, #x10000-#x10FFFF); when a
\* character outside that set stands in the body of such a construct, the
\* call returns the construct's error with the cause NonXmlChar.
C23_XmlCharsOnly ==
    LET XmlChar(c) == \/ c \in {9, 10, 13}
                      \/ (c >= 32 /\ c <= 55295)
                      \/ (c >= 57344 /\ c <= 65533)
                      \/ (c >= 65536 /\ c <= 1114111)
        BadIn(from, to) ==
            \E p \in from..(to - 1) :
                is_char_boundary(p + spanStart) /\ ~XmlChar(CharAt(p))
        StartsAt(i, t) == starts_with(Stream(i, FALSE), t)
        \* the first offset from i on where t starts, or the end
        FirstAt(i, t) ==
            IF i >= End THEN End ELSE
            CHOOSE j \in i..End :
                /\ j = End \/ StartsAt(j, t)
                /\ \A k \in i..(j - 1) : ~StartsAt(k, t)
        \* the first offset from i on whose byte is in (is not in) set
        Until(i, set) ==
            IF i >= End THEN End ELSE
            CHOOSE j \in i..End :
                /\ j = End \/ Byte(j) \in set
                /\ \A k \in i..(j - 1) : Byte(k) \notin set
        While(i, set) ==
            IF i >= End THEN End ELSE
            CHOOSE j \in i..End :
                /\ j = End \/ Byte(j) \notin set
                /\ \A k \in i..(j - 1) : Byte(k) \in set
        Spaces == {9, 10, 13, 32}
        Letters == 97..122
        p0 == last.pos0
        Fails(tt) == /\ last.res = "Err"
                     /\ last.err.tt = tt
                     /\ last.err.cause = "NonXmlChar"
        InContent == last.from \notin {"Attributes", "End"} /\ last.res # "init"
        n == While(p0 + 2, Letters)
        a == While(p0, Spaces)
        b == While(a, Letters)
        e == While(b, Spaces)
        q == While(e + 1, Spaces)
    IN /\ (/\ last.res = "Ok"
           /\ last.tok.kind \in {"Text", "Cdata", "Comment",
                                 "ProcessingInstruction", "Attribute"}) =>
              \A i \in 1..Len(last.tok.fields) :
                  last.tok.fields[i].name \in {"text", "content", "value"} =>
                      ~BadIn(last.tok.fields[i].span.start - spanStart,
                             last.tok.fields[i].span.end - spanStart)
       /\ (/\ InContent
           /\ StartsAt(p0, <<60, 33, 45, 45>>)
           /\ BadIn(p0 + 4, FirstAt(p0 + 4, <<45, 45, 62>>))) =>
              Fails("Comment")
       /\ (/\ last.from = "Elements" /\ last.res # "init"
           /\ StartsAt(p0, <<60, 33, 91, 67, 68, 65, 84, 65, 91>>)
           /\ BadIn(p0 + 9, FirstAt(p0 + 9, <<93, 93, 62>>))) =>
              Fails("CDSect")
       /\ (/\ last.from = "Elements" /\ last.res # "init"
           /\ p0 < End
           /\ Byte(p0) # A.lt
           /\ BadIn(p0, Until(p0, {A.lt}))) =>
              Fails("CharData")
       /\ (/\ InContent
           /\ StartsAt(p0, <<60, 63>>)
           /\ n > p0 + 2 /\ n < End
           /\ Byte(n) \in Spaces
           /\ ~(n = p0 + 5 /\ StartsAt(p0 + 2, <<120, 109, 108>>))
           /\ BadIn(While(n, Spaces), FirstAt(While(n, Spaces), <<63, 62>>))) =>
              Fails("PI")
       /\ (/\ last.from = "Attributes" /\ last.res # "init"
           /\ b > a /\ e < End
           /\ Byte(e) = A.eq
           /\ q < End
           /\ Byte(q) \in {A.sq, A.dq}
           /\ BadIn(q + 1, Until(q + 1, {Byte(q), A.lt}))) =>
              Fails("Attribute")

\* C24: in an XML declaration `encoding` and `standalone` are accepted only
\* after at least one whitespace byte behind the closing quote of the
\* pseudo-attribute before them: an emitted Declaration has a whitespace byte
\* behind the closing quote of the version when anything follows it, and
\* behind the closing quote of the encoding when standalone follows it; a
\* declaration whose `encoding` or `standalone` stands right behind a closing
\* quote gives the error of the declaration with the cause InvalidSpace, and
\* no Declaration.
C24_DeclarationNeedsSpace ==
    LET Spaces == {9, 10, 13, 32}
        StartsAt(i, t) == starts_with(Stream(i, FALSE), t)
        flds == last.tok.fields
        vend == flds[1].span.end - spanStart + 1
        has_enc == Len(flds) > 1
        eend == flds[2].span.end - spanStart + 1
        Fails == /\ last.res = "Err"
                 /\ last.err.tt = "XMLDecl"
                 /\ last.err.cause = "InvalidSpace"
        Head19 == <<60, 63, 120, 109, 108, 32, 118, 101, 114, 115, 105, 111,
                    110, 61, 39, 49, 46, 48, 39>>
        Enc == <<32, 101, 110, 99, 111, 100, 105, 110, 103, 61, 39, 85, 39>>
    IN /\ (last.res = "Ok" /\ last.tok.kind = "Declaration") =>
              /\ has_enc => Byte(vend) \in Spaces
              /\ last.tok.standalone # "none" =>
                     Byte(IF has_enc THEN eend ELSE vend) \in Spaces
       /\ (/\ last.from = "Start" /\ last.pos0 = 0 /\ last.res # "init"
           /\ StartsAt(0, Head19)
           /\ \/ StartsAt(19, S_encoding)
              \/ StartsAt(19, S_standalone)
              \/ StartsAt(19, Enc) /\ StartsAt(19 + 13, S_standalone)) =>
              Fails

C26_AttributeSpan ==
    LET Spaces == {9, 10, 13, 32}
        prefix == last.tok.fields[1].span
        local == last.tok.fields[2].span
        value == last.tok.fields[3].span
        sp == last.tok.span
        from == value.start - spanStart
        to == value.end - spanStart
        between == SubSeq(text, local.end + 1, value.start)
    IN /\ (last.res = "Ok" /\ last.tok.kind = "Attribute") =>
              /\ from >= 1 /\ to < End
              /\ Byte(from - 1) \in {39, 34}
              /\ Byte(to) = Byte(from - 1)
              /\ \A k \in from..(to - 1) : Byte(k) \notin {Byte(from - 1), 60}
              /\ sp.end = value.end + 1
              /\ sp.start = IF prefix.own THEN prefix.start ELSE local.start
              /\ prefix.own =>
                     prefix.end + 1 = local.start /\ text[prefix.end + 1] = 58
              /\ SpanLen(local) > 0
              /\ Len(between) >= 2
              /\ between[Len(between)] = Byte(from - 1)
              /\ \E k \in 1..(Len(between) - 1) :
                     /\ between[k] = 61
                     /\ \A j \in 1..(Len(between) - 1) :
                            j # k => between[j] \in Spaces
       /\ (/\ last.res = "Ok"
           /\ last.tok.kind = "ElementEnd"
           /\ last.tok.end = "Empty") =>
              SpanBytes(last.tok.span) = <<47, 62>>

\* an attribute with whitespace around `=` and before the name, and one
\* followed by whitespace
C26_Witness ==
    /\ last.res = "Ok"
    /\ last.tok.kind = "Attribute"
    /\ last.tok.span.start - spanStart > last.pos0
    /\ last.tok.fields[3].span.start - last.tok.fields[2].span.end > 2

\* C27: in the Dtd state a declaration `<!ELEMENT`, `<!ATTLIST` or
\* `<!NOTATION` is consumed through the next `>` and gives no token: the call
\* that meets it returns what the tokenizer returns from the byte behind that
\* `>` on (the next token, an error found there, or None at the end of the
\* text), and the state is still Dtd unless that token is the DtdEnd.
C27_SkippedDeclarations ==
    LET Spaces == {9, 10, 13, 32}
        StartsAt(i, t) == starts_with(Stream(i, FALSE), t)
        While(i, set) ==
            IF i >= End THEN End ELSE
            CHOOSE j \in i..End :
                /\ j = End \/ Byte(j) \notin set
                /\ \A k \in i..(j - 1) : Byte(k) \in set
        d == While(last.pos0, Spaces)
        kw == IF StartsAt(d + 2, S_NOTATION) THEN 8 ELSE 7
        g == While(d + 2 + kw, 0..255 \ {62})
        r == parse_next_impl(Stream(g + 1, FALSE), "Dtd")
    IN (/\ last.from = "Dtd" /\ last.res # "init"
        /\ StartsAt(d, <<60, 33>>)
        /\ \/ StartsAt(d + 2, S_ELEMENT)
           \/ StartsAt(d + 2, S_ATTLIST)
           \/ StartsAt(d + 2, S_NOTATION)
        /\ d + 2 + kw < End
        /\ Byte(d + 2 + kw) \in Spaces
        /\ g < End) =>
           /\ last.res = "Ok" =>
                  /\ last.tok.span.start - spanStart > g
                  /\ state = IF last.tok.kind = "DtdEnd" THEN "AfterDtd"
                             ELSE "Dtd"
           /\ last.res = "Err" => last.err.at > g
           /\ last.res = "None" => state = "Dtd" /\ pos = End
           /\ IF g + 1 < End
              THEN /\ (last.res # "None") = r.some
                   /\ (last.res = "Ok") = (r.some /\ r.ok)
                   /\ last.tok = r.tok
                   /\ last.err = r.err
              ELSE last.res = "None"

\* a call in the Dtd state that meets an ATTLIST or a NOTATION declaration and
\* returns the entity declaration behind it
C27_Witness ==
    /\ last.from = "Dtd"
    /\ last.res = "Ok"
    /\ last.tok.kind = "EntityDeclaration"
    /\ \/ starts_with(Stream(last.pos0, FALSE), <<60, 33, 65, 84, 84>>)
       \/ starts_with(Stream(last.pos0, FALSE), <<60, 33, 78, 79, 84>>)

\* C28: a malformed comment gives the error of the comment with a cause that
\* names the defect: InvalidCommentData when the body (the text between `<!--`
\* and the first `-->`) holds `--`, InvalidCommentEnd when the body ends with
\* `-`.
C28_CommentCause ==
    LET StartsAt(i, t) == starts_with(Stream(i, FALSE), t)
        p0 == last.pos0
        FirstAt(i, t) ==
            IF i >= End THEN End ELSE
            CHOOSE j \in i..End :
                /\ j = End \/ StartsAt(j, t)
                /\ \A k \in i..(j - 1) : ~StartsAt(k, t)
        c == FirstAt(p0 + 4, <<45, 45, 62>>)
        has_mm == \E k \in (p0 + 4)..(c - 2) : Byte(k) = 45 /\ Byte(k + 1) = 45
        ends_m == c > p0 + 4 /\ Byte(c - 1) = 45
        Fails(cause) == /\ last.res = "Err"
                        /\ last.err.tt = "Comment"
                        /\ last.err.cause = cause
    IN (/\ last.from \notin {"Attributes", "End"} /\ last.res # "init"
        /\ StartsAt(p0, <<60, 33, 45, 45>>)
        /\ c < End
        /\ \A k \in (p0 + 4)..(c - 1) : Byte(k) >= 32) =>
           /\ has_mm => Fails("InvalidCommentData")
           /\ (~has_mm /\ ends_m) => Fails("InvalidCommentEnd")

\* C29: the position of an error, gen_text_pos at a byte offset on a code
\* point boundary, has row = 1 + the number of `\n` bytes before the offset
\* and col = 1 + the number of code points between the last `\n` before the
\* offset (or the start of the text) and the offset; row and col are at least
\* 1 and the position right behind a `\n` has col 1.
C29_TextPos ==
    LET end == ClampPos(last.err.at) + spanStart
        \* the offset behind the last `\n` of text[..end], 0 without one
        line == IF \E i \in 1..end : text[i] = 10
                THEN CHOOSE i \in 1..end :
                         text[i] = 10 /\ \A k \in (i + 1)..end : text[k] # 10
                ELSE 0
        points == {i \in (line + 1)..end : text[i] < 128 \/ text[i] > 191}
    IN (/\ last.res = "Err"
        /\ end <= Len(text)
        /\ is_char_boundary(end)) =>
           /\ last.err.pos.row = 1 + Cardinality({i \in 1..end : text[i] = 10})
           /\ last.err.pos.col = 1 + Cardinality(points)
           /\ last.err.pos.row >= 1
           /\ last.err.pos.col >= 1
           /\ (end > 0 /\ text[end] = 10) => last.err.pos.col = 1

\* an error on the second line, behind a character of more than one byte
C29_Witness ==
    /\ last.res = "Err"
    /\ last.err.pos.row = 2
    /\ last.err.pos.col = 2
    /\ last.err.at + spanStart = 5

\* C30: span fidelity.  The text of the span of an emitted token, tokenized
\* alone from the state the token was produced in, gives that token again:
\* same kind, same fields with the same texts, a span that covers the whole
\* text, and nothing left behind it.
C30_SpanFidelity ==
    (hist.again /\ last.res # "again" /\ last.pos0 = 0) =>
        /\ last.res = "Ok"
        /\ last.tok = prev
        /\ last.tok.span = [start |-> 0, end |-> Len(text), own |-> TRUE]
        /\ pos = Len(text)

\* C30, amended: span fidelity holds for every emitted token whose span does
\* not begin with the bytes EF BB BF.  (A tokenizer skips these three bytes at
\* the start of its text, so the text of a token that begins with U+FEFF does
\* not give the token again.)
C30_SpanFidelityWithoutBom ==
    (/\ hist.again /\ last.res # "again" /\ last.pos0 = 0
     /\ ~(Len(text) >= 3 /\ SubSeq(text, 1, 3) = <<239, 187, 191>>)) =>
        /\ last.res = "Ok"
        /\ last.tok = prev
        /\ last.tok.span = [start |-> 0, end |-> Len(text), own |-> TRUE]
        /\ pos = Len(text)

\* the text of an attribute, taken from behind whitespace, tokenized alone in
\* the Attributes state, has given the attribute again
C30_Witness ==
    /\ hist.again
    /\ last.res = "Ok"
    /\ last.from = "Attributes"
    /\ last.tok.kind = "Attribute"
    /\ last.tok = prev
    /\ last.pos0 = 0
    /\ text = <<98, 61, 39, 118, 39>>

\* C31: a construct is taken for the XML declaration exactly when it begins
\* with the six bytes `<?xml ` (the last one a space); `<?` followed by
\* anything else, `xml-stylesheet` or `xml` and a line feed or a tab included,
\* is taken for a processing instruction whose target is the name that
\* follows `<?`; a byte order mark at offset 0 is skipped first.  So a
\* Declaration token or an error of the XML declaration
\* begins with `<?xml `, a ProcessingInstruction token or an error of a
\* processing instruction begins with `<?` and not with `<?xml `, and a call
\* that starts at such bytes gives nothing else.
C31_XmlDeclLeadIn ==
    LET \* the offset behind a byte order mark that stands at offset i = 0
        Lead(i) == IF i = 0 /\ starts_with(Stream(0, FALSE), S_BOM)
                   THEN 3 ELSE i
        Decl(i) == starts_with(Stream(Lead(i), FALSE), <<60>> \o S_qxml)
        Pi(i) == starts_with(Stream(Lead(i), FALSE), <<60, 63>>) /\ ~Decl(i)
        at == last.tok.span.start - spanStart
        target == last.tok.fields[1].span
        dispatched == /\ last.res \in {"Ok", "Err"}
                      /\ last.from \notin {"Attributes", "End"}
    IN /\ (last.res = "Ok" /\ last.tok.kind = "Declaration") => Decl(at)
       /\ (last.res = "Ok" /\ last.tok.kind = "ProcessingInstruction") =>
              /\ Pi(at)
              /\ target.start = last.tok.span.start + 2
              /\ SpanLen(target) > 0
              /\ \A k \in (target.start + 1)..target.end :
                     text[k] < 128 => byte_is_xml_name(text[k])
              /\ target.end < last.tok.span.end
              /\ ~byte_is_xml_name(text[target.end + 1])
       /\ (last.res = "Err" /\ last.err.tt = "XMLDecl") => Decl(last.err.at)
       /\ (last.res = "Err" /\ last.err.tt = "PI") => Pi(last.err.at)
       /\ (dispatched /\ Decl(last.pos0)) =>
              \/ last.res = "Ok" /\ last.tok.kind = "Declaration"
              \/ last.res = "Err" /\ last.err.tt = "XMLDecl"
       /\ (dispatched /\ Pi(last.pos0)) =>
              \/ /\ last.res = "Ok"
                 /\ last.tok.kind = "ProcessingInstruction"
                 /\ at = Lead(last.pos0)
              \/ /\ last.res = "Err"
                 /\ last.err.kind = "InvalidToken"
                 /\ last.err.tt = "PI"
                 /\ last.err.at = Lead(last.pos0)

\* `<?xml` followed by a line feed has given a processing instruction whose
\* target is `xml`
C31_Witness ==
    /\ last.res = "Ok"
    /\ last.tok.kind = "ProcessingInstruction"
    /\ SpanBytes(last.tok.fields[1].span) = <<120, 109, 108>>
    /\ text[last.tok.fields[1].span.end + 1] = 10

\* C32: when the lead-in of a construct has matched and its body is
\* malformed, the error is InvalidToken of that construct's token type
\* (XMLDecl, PI, Comment, DoctypeDecl, EntityDecl, CDSect, ElementStart or
\* ElementClose) and its position is the row and column of the `<` the
\* construct begins with: the offset the parser was entered at less the
\* length of the lead-in (6, 2, 4, 9, 8, 9, 1, 2) is the offset dispatch
\* started at, behind a byte order mark at offset 0.
C32_ErrorAtConstructStart ==
    LET Lead(i) == IF i = 0 /\ starts_with(Stream(0, FALSE), S_BOM)
                   THEN 3 ELSE i
        Has(i, t) == starts_with(Stream(i, FALSE), t)
        \* the token type whose lead-in stands at offset i
        Construct(i) ==
            IF Has(i, <<60>> \o S_qxml) THEN "XMLDecl"
            ELSE IF Has(i, <<60, 63>>) THEN "PI"
            ELSE IF Has(i, <<60, 33>> \o S_mm) THEN "Comment"
            ELSE IF Has(i, <<60, 33>> \o S_DOCTYPE) THEN "DoctypeDecl"
            ELSE IF Has(i, <<60, 33>> \o S_ENTITY) THEN "EntityDecl"
            ELSE IF Has(i, <<60, 33>> \o S_CDATA) THEN "CDSect"
            ELSE IF Has(i, <<60, 47>>) THEN "ElementClose"
            ELSE IF i + 1 < End /\ Byte(i) = 60 /\ Byte(i + 1) \notin {33, 63}
                 THEN "ElementStart"
            ELSE "none"
        Constructs == {"XMLDecl", "PI", "Comment", "DoctypeDecl", "EntityDecl",
                       "CDSect", "ElementStart", "ElementClose"}
        LeadInLen(tt) ==
            CASE tt = "XMLDecl" -> 6 [] tt = "PI" -> 2 [] tt = "Comment" -> 4
              [] tt = "DoctypeDecl" -> 9 [] tt = "EntityDecl" -> 8
              [] tt = "CDSect" -> 9 [] tt = "ElementStart" -> 1
              [] tt = "ElementClose" -> 2
        end == last.err.at + spanStart
        line == IF \E i \in 1..end : text[i] = 10
                THEN CHOOSE i \in 1..end :
                         text[i] = 10 /\ \A k \in (i + 1)..end : text[k] # 10
                ELSE 0
        points == {i \in (line + 1)..end : text[i] < 128 \/ text[i] > 191}
        from0 == Lead(last.pos0)
    IN /\ (/\ last.res = "Err"
           /\ last.err.kind = "InvalidToken"
           /\ last.err.tt # "Attribute"
           /\ last.err.tt # "CharData") =>
              /\ last.err.tt \in Constructs
              /\ Construct(last.err.at) = last.err.tt
              /\ last.err.at >= from0
              /\ last.err.at + LeadInLen(last.err.tt) <= End
              /\ Byte(last.err.at) = 60
              /\ last.err.pos.row = 1 + Cardinality({i \in 1..end : text[i] = 10})
              /\ last.err.pos.col = 1 + Cardinality(points)
       /\ (/\ last.res = "Err"
           /\ last.from \notin {"Attributes", "End"}
           /\ Construct(from0) \in Accepts(last.from)
           /\ Construct(from0) = "XMLDecl" => last.pos0 = 0) =>
              /\ last.err.kind = "InvalidToken"
              /\ last.err.tt = Construct(from0)
              /\ last.err.at = from0

\* an entity declaration without a definition, in the internal subset of a
\* DOCTYPE, has given its error at the `<` of `<!ENTITY`
C32_Witness ==
    /\ last.res = "Err"
    /\ last.err.kind = "InvalidToken"
    /\ last.err.tt = "EntityDecl"
    /\ last.err.at = 13
    /\ last.err.pos = TextPos(1, 14)
    /\ pos = End

\* C33: on every stream, one over a sub-span that starts at a non-zero
\* offset of the text included, and for every offset p, one behind the end or
\* inside a character of several bytes included, gen_text_pos_from(p) returns
\* without a panic and leaves the position of the stream as it was; for p at
\* or behind the length of the text it returns the position of the end of the
\* text.
C33_GenTextPosFromTotal ==
    LET n == Len(text)
        line == IF \E i \in 1..n : text[i] = 10
                THEN CHOOSE i \in 1..n :
                         text[i] = 10 /\ \A k \in (i + 1)..n : text[k] # 10
                ELSE 0
        points == {i \in (line + 1)..n : text[i] < 128 \/ text[i] > 191}
    IN last.res = "gen_text_pos_from" =>
           /\ ~hist.bad
           /\ pos = last.pos0
           /\ last.arg >= n =>
                  /\ last.ret.row = 1 + Cardinality({i \in 1..n : text[i] = 10})
                  /\ last.ret.col = 1 + Cardinality(points)

C35_Fused ==
    [][/\ last.res = "None" =>
              /\ last'.res = "None"
              /\ pos' = pos
              /\ state' = state
              /\ depth' = depth
       /\ last'.res = "None" =>
              /\ pos' = End
              /\ state' = last'.from
              /\ depth' = last'.depth0
              /\ state' = "End" <=> hist'.errs > 0]_vars

\* a second None, after one that was returned at the end of a text which
\* ends with whitespace behind the root element
C35_Witness ==
    /\ last.res = "None"
    /\ last.pos0 = End
    /\ hist.errs = 0
    /\ hist.somes > 0
    /\ state = "AfterElements"
    /\ Byte(End - 1) = 32

\* C36: while no error has been emitted, every byte before the position that
\* is in no span of an emitted token belongs to a byte order mark at the
\* start, to XML whitespace (space, tab, line feed, carriage return) or to a
\* skipped `<!ELEMENT`, `<!ATTLIST` or `<!NOTATION` declaration: a call that
\* returns a token has skipped only such bytes between the position it
\* started at and the start of the span and between the end of the span and
\* the position it leaves; a call that returns None has skipped only such
\* bytes.  A token emitted from the Elements state begins where the token
\* before it ends.
C36_NoUnreadGaps ==
    LET Has(i, t) == starts_with(Stream(i, FALSE), t)
        Skipped(i) == \/ Has(i, <<60, 33>> \o S_ELEMENT)
                      \/ Has(i, <<60, 33>> \o S_ATTLIST)
                      \/ Has(i, <<60, 33>> \o S_NOTATION)
        \* the offset behind the first `>` at or behind offset i
        Gt(i) == CHOOSE k \in (i + 1)..End :
                     Byte(k - 1) = 62 /\ \A j \in i..(k - 2) : Byte(j) # 62
        \* the bytes [i, b) are skipped bytes only
        Gap[i \in 0..End] ==
            [b \in 0..End |->
                IF i >= b THEN i = b
                ELSE IF i = 0 /\ Has(0, S_BOM) THEN Gap[3][b]
                ELSE IF Byte(i) \in {9, 10, 13, 32} THEN Gap[i + 1][b]
                ELSE IF /\ last.from = "Dtd"
                        /\ Skipped(i)
                        /\ \E k \in i..(b - 1) : Byte(k) = 62
                     THEN Gap[Gt(i)][b]
                ELSE FALSE]
        from == last.tok.span.start - spanStart
    IN /\ last.res = "Ok" =>
              /\ from >= last.pos0
              /\ Gap[last.pos0][from]
              /\ last.tok.span.end - spanStart <= pos
              /\ Gap[last.tok.span.end - spanStart][pos]
       /\ (last.res = "None" /\ hist.errs = 0) => Gap[last.pos0][pos]
       /\ (last.res = "Ok" /\ last.from = "Elements" /\ prev.kind # "none") =>
              last.tok.span.start = prev.span.end

\* C37: the text of an emitted Cdata token is the bytes between `<![CDATA[`
\* and the first `]]>` behind it: no `]]>` begins inside the text, which may
\* hold `]`, `]]`, `<` and `&`, and the span of the token runs from 9 bytes
\* before the text to 3 bytes behind it.  A CDATA section without a `]]>`
\* gives the error of CDATA (InvalidToken of CDSect) at its `<`, and one with
\* a `]]>` behind printable ASCII text gives the token.
C37_CdataText ==
    LET Has(i, t) == starts_with(Stream(i, FALSE), t)
        sp == last.tok.span
        body == last.tok.fields[1].span
        from0 == IF last.pos0 = 0 /\ Has(0, S_BOM) THEN 3 ELSE last.pos0
        Ends == {k \in (from0 + 9)..End : Has(k, S_cd_end)}
        opened == /\ last.res \in {"Ok", "Err"}
                  /\ last.from = "Elements"
                  /\ Has(from0, <<60, 33>> \o S_CDATA)
    IN /\ (last.res = "Ok" /\ last.tok.kind = "Cdata") =>
              /\ Len(last.tok.fields) = 1
              /\ last.tok.fields[1].name = "text"
              /\ body.own
              /\ sp.start = body.start - 9
              /\ sp.end = body.end + 3
              /\ SubSeq(text, sp.start + 1, body.start) = <<60, 33>> \o S_CDATA
              /\ SubSeq(text, body.end + 1, sp.end) = S_cd_end
              /\ \A k \in body.start..(body.end - 1) :
                     ~Has(k - spanStart, S_cd_end)
              /\ sp.start - spanStart = from0
       /\ (opened /\ Ends = {}) =>
              /\ last.res = "Err"
              /\ last.err.kind = "InvalidToken"
              /\ last.err.tt = "CDSect"
              /\ last.err.at = from0
              /\ Byte(last.err.at) = 60
       /\ (/\ opened
           /\ \E e \in Ends :
                  \A k \in (from0 + 9)..(e - 1) : Byte(k) \in 32..126) =>
              /\ last.res = "Ok"
              /\ last.tok.kind = "Cdata"

\* a CDATA section whose text is `]]`
C37_Witness ==
    /\ last.res = "Ok"
    /\ last.tok.kind = "Cdata"
    /\ SpanBytes(last.tok.fields[1].span) = <<93, 93>>
    /\ SpanLen(last.tok.span) = 14

\* C38: the prefix consume_qname returns for a name without a prefix is a
\* span of length 0 of the input text that starts where the name starts (at
\* the leading colon when the name has one), never a span of another string;
\* a name that is a colon and a non-empty remainder has the empty prefix and
\* the remainder as its local name.  The names are those of ElementStart,
\* Attribute and ElementEnd::Close tokens.
C38_EmptyPrefixInText ==
    LET prefix == last.tok.fields[1].span
        local == last.tok.fields[2].span
        sp == last.tok.span
        \* the offset in the text at which the qualified name begins
        name == CASE last.tok.kind = "ElementStart" -> sp.start + 1
                  [] last.tok.kind = "ElementEnd" -> sp.start + 2
                  [] OTHER -> sp.start
        named == /\ last.res = "Ok"
                 /\ \/ last.tok.kind \in {"ElementStart", "Attribute"}
                    \/ last.tok.kind = "ElementEnd" /\ last.tok.end = "Close"
    IN (named /\ SpanLen(prefix) = 0) =>
           /\ prefix.own
           /\ prefix.start = name
           /\ prefix.end = name
           /\ local.start \in {name, name + 1}
           /\ local.start = name + 1 => text[name + 1] = 58
           /\ SpanLen(local) > 0

\* C39: try_consume_char_reference leaves the position as it was when it
\* returns None (on a malformed reference, on an entity reference such as
\* `&ref;`, without the `;`, at the end of the input) and leaves it right
\* behind the `;` that ends the reference when it returns Some, which it
\* does for a character reference or a predefined entity only.  skip_spaces
\* consumes whitespace bytes and whole references to whitespace characters
\* only: it never leaves the position inside or behind a reference that does
\* not stand for an XML space, and it stops before the first other byte.
C39_ReferenceFrame ==
    LET Digits(from, to, set) ==
            to > from /\ \A k \in from..(to - 1) : Byte(k) \in set
        Dec == 48..57
        Hex == (48..57) \cup (65..70) \cup (97..102)
        Names == {S_quot, S_amp, S_apos, S_lt, S_gt}
        \* the bytes [i, e) are `&#d+;`, `&#xh+;` or a predefined entity
        CharRefAt(i, e) ==
            /\ e - i >= 4 /\ e <= End
            /\ Byte(i) = 38 /\ Byte(e - 1) = 59
            /\ \/ Byte(i + 1) = 35 /\ Digits(i + 2, e - 1, Dec)
               \/ Byte(i + 1) = 35 /\ Byte(i + 2) = 120
                  /\ Digits(i + 3, e - 1, Hex)
               \/ SubSeq(text, spanStart + i + 2, spanStart + e - 1) \in Names
        \* the digits of the number in [from, to) without leading zeros
        Strip(from, to) ==
            LET nz == {k \in from..(to - 1) : Byte(k) # 48}
                first == IF nz = {} THEN to
                         ELSE CHOOSE k \in nz : \A j \in nz : k <= j
            IN SubSeq(text, spanStart + first + 1, spanStart + to)
        \* the bytes [i, e) are a reference to a space, tab, LF or CR
        SpaceRefAt(i, e) ==
            /\ e - i >= 4 /\ e <= End
            /\ Byte(i) = 38 /\ Byte(i + 1) = 35 /\ Byte(e - 1) = 59
            /\ \/ /\ Digits(i + 2, e - 1, Dec)
                  /\ Strip(i + 2, e - 1) \in
                         {<<57>>, <<49, 48>>, <<49, 51>>, <<51, 50>>}
               \/ /\ Byte(i + 2) = 120
                  /\ Digits(i + 3, e - 1, Hex)
                  /\ Strip(i + 3, e - 1) \in
                         {<<57>>, <<65>>, <<97>>, <<68>>, <<100>>, <<50, 48>>}
        \* the bytes [i, pos) are whitespace and references to whitespace
        Skipped[i \in 0..End] ==
            IF i >= pos THEN i = pos
            ELSE \/ Byte(i) \in {9, 10, 13, 32} /\ Skipped[i + 1]
                 \/ \E e \in (i + 1)..pos : SpaceRefAt(i, e) /\ Skipped[e]
    IN /\ last.res = "try_consume_char_reference" =>
              /\ ~hist.bad
              /\ ~last.ret.some => pos = last.pos0
              /\ last.ret.some =>
                     /\ pos > last.pos0
                     /\ CharRefAt(last.pos0, pos)
                     /\ \A k \in last.pos0..(pos - 2) : Byte(k) # 59
       /\ last.res = "skip_spaces" =>
              /\ ~hist.bad
              /\ pos >= last.pos0
              /\ Skipped[last.pos0]
              /\ pos < End =>
                     /\ Byte(pos) \notin {9, 10, 13, 32}
                     /\ \A e \in (pos + 1)..End : ~SpaceRefAt(pos, e)

\* try_consume_char_reference has returned None on an entity reference and
\* left the position before it, behind whitespace that skip_spaces consumed
C39_Witness ==
    /\ last.res = "try_consume_char_reference"
    /\ ~last.ret.some
    /\ pos = last.pos0
    /\ pos = 1
    /\ End >= 6
    /\ SubSeq(text, spanStart + 2, spanStart + 6) = <<38, 114, 101, 102, 59>>

\* C40: consume_reference on `&name;` returns EntityRef(name), but CharRef
\* of the character for the five names quot, amp, apos, lt and gt; on `&#d+;`
\* and `&#xh+;` it returns CharRef of the code point with that number, and
\* of U+FFFD when the number is no Unicode scalar value (a surrogate, or
\* above 10FFFF); it returns InvalidReference without digits, for a number
\* that does not fit in 32 bits, for a character that is not an XML Char
\* (`&#x0;`, `&#xFFFE;`) and without the `;` at the end.  An Ok leaves the
\* position right behind the `;`.
C40_ConsumeReference ==
    LET p0 == last.pos0
        ret == last.ret
        Dec == 48..57
        Hex == (48..57) \cup (65..70) \cup (97..102)
        Name == (48..57) \cup (65..90) \cup (97..122) \cup {45, 46, 58, 95}
        NameStart == (65..90) \cup (97..122) \cup {58, 95}
        \* the end of the longest run of bytes of a set from offset i on
        Run(i, set) ==
            IF \E k \in i..(End - 1) : Byte(k) \notin set
            THEN CHOOSE k \in i..(End - 1) :
                     Byte(k) \notin set /\ \A j \in i..(k - 1) : Byte(j) \in set
            ELSE IF i > End THEN i ELSE End
        numeric == p0 + 1 < End /\ Byte(p0 + 1) = 35
        hex == numeric /\ p0 + 2 < End /\ Byte(p0 + 2) = 120
        from == IF hex THEN p0 + 3 ELSE IF numeric THEN p0 + 2 ELSE p0 + 1
        to == Run(from, IF hex THEN Hex ELSE IF numeric THEN Dec ELSE Name)
        closed == to < End /\ Byte(to) = 59
        \* the digits without leading zeros, as digit values
        nz == {k \in from..(to - 1) : Byte(k) # 48}
        first == IF nz = {} THEN to ELSE CHOOSE k \in nz : \A j \in nz : k <= j
        digits == [k \in 1..(to - first) |->
                      LET c == Byte(first + k - 1)
                      IN IF c <= 57 THEN c - 48
                         ELSE IF c <= 70 THEN c - 55 ELSE c - 87]
        n == Len(digits)
        radix == IF hex THEN 16 ELSE 10
        Value[k \in 0..n] ==
            IF k = 0 THEN 0 ELSE Value[k - 1] * radix + digits[k]
        max == <<4, 2, 9, 4, 9, 6, 7, 2, 9, 5>>
        fits == IF hex THEN n <= 8
                ELSE \/ n < 10
                     \/ /\ n = 10
                        /\ ~\E k \in 1..10 :
                               /\ digits[k] > max[k]
                               /\ \A j \in 1..(k - 1) : digits[j] = max[j]
        small == IF hex THEN n <= 6 ELSE n <= 7
        char == IF ~small THEN 65533
                ELSE IF Value[n] > 1114111 \/ Value[n] \in 55296..57343
                THEN 65533
                ELSE Value[n]
        XmlChar(c) == \/ c \in {9, 10, 13}
                      \/ c \in 32..55295
                      \/ c \in 57344..65533
                      \/ c \in 65536..1114111
        name == SubSeq(text, spanStart + from + 1, spanStart + to)
        known == CASE name = S_quot -> 34 [] name = S_amp -> 38
                   [] name = S_apos -> 39 [] name = S_lt -> 60
                   [] name = S_gt -> 62 [] OTHER -> 0
        Invalid == /\ ~ret.ok
                   /\ ret.cause = "InvalidReference"
        CharRef(c) == /\ ret.ok
                      /\ ret.ref.type = "CharRef"
                      /\ ret.ref.ch = c
                      /\ pos = to + 1
        EntityRef == /\ ret.ok
                     /\ ret.ref.type = "EntityRef"
                     /\ ret.ref.name = slice_region(from, to)
                     /\ pos = to + 1
    IN last.res = "consume_reference" =>
           /\ ~hist.bad
           /\ IF p0 >= End \/ Byte(p0) # 38 THEN Invalid
              ELSE IF numeric
              THEN IF to = from \/ ~fits \/ ~closed THEN Invalid
                   ELSE IF ~XmlChar(char) THEN Invalid
                   ELSE CharRef(char)
              ELSE IF to = from \/ Byte(from) \notin NameStart \/ ~closed
              THEN Invalid
              ELSE IF known # 0 THEN CharRef(known)
              ELSE EntityRef

\* a hexadecimal reference to a surrogate code point has given U+FFFD
C40_Witness ==
    /\ last.res = "consume_reference"
    /\ last.ret.ok
    /\ last.ret.ref.type = "CharRef"
    /\ last.ret.ref.ch = 65533
    /\ End >= 8
    /\ SubSeq(text, spanStart + 1, spanStart + 8)
           = <<38, 35, 120, 68, 56, 48, 48, 59>>

====
